---- MODULE Spec2Model ----
(***************************************************************************)
(* Model of the node-connection core of tondi-listener's server crate:     *)
(*   - shared/pool.rs            Pool<T>::get over a tokio RwLock<T>       *)
(*   - extensions/client_pool    Client (Grpc | Wrpc), Metadata,           *)
(*                               HealthCheck, ListenerManager              *)
(*   - routes/websocket          the per-connection socket handler and the *)
(*                               receive endpoints handed to connections   *)
(*   - ctx/event_config.rs,      event identifiers, EventConfig::validate  *)
(*     ctx/config.rs             and Config::from_env                      *)
(***************************************************************************)
EXTENDS Integers, Sequences, FiniteSets, TLC

(***************************************************************************)
(* Bounds of the model.                                                    *)
(***************************************************************************)
\* number of tasks that call Pool::get concurrently
NumCallers == 3
\* number of Client instances ever constructed (the initial one included)
MaxBuilds == 2

\* number of browser connections
NumConns == 2
\* number of notifications the node publishes
MaxNotes == 2
\* number of inbound frames a browser sends on one connection
MaxFrames == 1

\* number of tokens in a node URL given to connect_with_events
MaxUrlLen == 3
\* number of entries in an event list given to connect_with_events
MaxEvents == 2

\* number of entries in a configured list of enabled events
MaxEnabled == 2
\* number of entries in one tier of a Priority strategy
MaxTier == 1
\* largest batch_size / batch_timeout_ms of a Batch strategy
MaxBatch == 1

\* frames the browser sends on the connection of a single session
MaxSessionFrames == 2

Callers == 1 .. NumCallers
NoCaller == 0
Conns == 1 .. NumConns

(***************************************************************************)
(* ctx/event_config.rs: the event taxonomy.                                *)
(***************************************************************************)
EventType ==
  { "block-added", "virtual-chain-changed", "finality-conflict",
    "finality-conflict-resolved", "utxos-changed", "sink-blue-score-changed",
    "virtual-daa-score-changed", "pruning-point-utxo-set-override",
    "new-block-template" }

get_all_event_types == EventType

\* EventConfig::get_all_event_types, in the order of the vec
all_event_types_vec ==
  << "block-added", "virtual-chain-changed", "finality-conflict",
     "finality-conflict-resolved", "utxos-changed", "sink-blue-score-changed",
     "virtual-daa-score-changed", "pruning-point-utxo-set-override",
     "new-block-template" >>

default_enabled_events ==
  { "block-added", "utxos-changed", "virtual-chain-changed" }

\* the event types the node publishes in the model
PublishedTypes == { "block-added", "utxos-changed" }

\* the configured event sets the model starts from
ConfiguredSets == { default_enabled_events, EventType }

(***************************************************************************)
(* Connection URLs.  A URL is kept as what connect_with_events looks at:   *)
(* the prefix it starts with, and whether the text contains ':' / "://".   *)
(***************************************************************************)
Url(prefix, colon, sep) == [prefix |-> prefix, colon |-> colon, sep |-> sep]

\* the node URLs the pool is started with in the model
PoolUrls == { Url("ws://", TRUE, TRUE), Url("grpc://", TRUE, TRUE) }

\* a branch selection that takes any text with a ':' for a host:port
VariantOfAnyColon(url) ==
  IF url.prefix \in {"ws://", "wss://"} THEN "Wrpc"
  ELSE IF url.prefix \in {"grpc://", "http://", "https://"} THEN "Grpc"
  ELSE IF url.colon THEN "Wrpc"
  ELSE "Unsupported"

\* Client::connect_with_events: the branch taken for a URL
VariantOf(url) ==
  IF url.prefix \in {"ws://", "wss://"} THEN "Wrpc"
  ELSE IF url.prefix \in {"grpc://", "http://", "https://"} THEN "Grpc"
  ELSE IF url.colon /\ ~url.sep THEN "Wrpc"
  ELSE "Unsupported"

\* ListenerManager::new_wrpc: one Listener per requested event
new_wrpc(events) == events

\* ListenerManager::new: one Listener per event type of the taxonomy
ListenerManager_new == get_all_event_types

\* Client::connect_with_events: the client built when the transport connects
\* and every subscription succeeds (id names the instance)
connect_with_events(id, url, events) ==
  [ id        |-> id,
    variant   |-> VariantOf(url),
    listeners |-> IF VariantOf(url) = "Wrpc" THEN new_wrpc(events)
                  ELSE ListenerManager_new,
    connected |-> TRUE,
    dropped   |-> FALSE ]

\* Client::connect: connect_with_events with an empty event list
connect(id, url) == connect_with_events(id, url, {})

\* a try_from that hands back a client whose transport is not connected
try_from_unconnected(id, url) == [connect(id, url) EXCEPT !.connected = FALSE]

\* <Client as Metadata>::try_from
try_from(id, url) == connect(id, url)

\* WrpcClientWrapper::is_connected
Wrpc_is_connected(client) == TRUE

\* GrpcClient::is_connected (through Deref): the transport's own state
Grpc_is_connected(client) == client.connected

\* <Client as HealthCheck>::is_live
is_live(client) ==
  IF client.variant = "Grpc" THEN Grpc_is_connected(client)
  ELSE Wrpc_is_connected(client)

(***************************************************************************)
(* State.                                                                  *)
(***************************************************************************)
VARIABLES
  meta,        \* Pool.meta: the node URL
  configured,  \* the event set extension_with_events was called with
  pool,        \* Pool.pool: the Client held behind the RwLock
  built,       \* number of Client instances constructed so far
  readers,     \* callers holding an RwLockReadGuard
  writer,      \* caller holding the RwLockWriteGuard (NoCaller: none)
  waitq,       \* callers queued in pool.write().await, in FIFO order
  pc,          \* where each caller is in Pool::get
  seen,        \* id of the instance a caller saw not live (0: none)
  calls,       \* T::try_from calls made by the caller's current get()
  got,         \* id of the instance behind the handle get() returned
  notes,       \* the event types of the notifications the node published, in order
  chan,        \* per event type, the channel of the ListenerManager's Listener
  hchan,       \* per event type, the channel of the WrpcEventHandler's Listener
  rx,          \* per connection, the event type of the receive endpoint it holds
  since,       \* per connection, how many notifications preceded its endpoint
  taken,       \* per connection, the notifications it received from its endpoint
  asked,       \* per connection, the event type it last asked ListenerManager::get for
  refused,     \* per connection, the error that lookup returned ("none": it returned Ok)
  conn,        \* per connection, the state of its socket handler
  inbox,       \* per connection, the inbound frames not yet read by the handler
  frames,      \* per connection, the number of frames the browser sent
  out,         \* per connection, the messages the handler sent on the socket
  ctor,        \* the Client::connect_with_events call in progress
  conf,        \* the configuration being loaded at startup
  req          \* the request or notification a route is handling

poolVars == <<meta, configured, pool, built, readers, writer, waitq, pc, seen, calls, got>>

nodeVars == <<notes, chan, hchan>>

endpointVars == <<rx, since, taken, asked, refused>>

socketVars == <<conn, inbox, frames, out>>

startVars == <<ctor, conf, req>>

vars == <<poolVars, nodeVars, endpointVars, socketVars, startVars>>

Range(q) == { q[i] : i \in DOMAIN q }

(***************************************************************************)
(* tokio::sync::RwLock.  The lock is write-preferring: a write().await     *)
(* that cannot be served takes the free permits and queues, so try_read    *)
(* fails while a writer holds the lock or waits for it; released permits   *)
(* are handed to the head of the queue.                                    *)
(***************************************************************************)
\* a lock whose read access is exclusive (a Mutex in place of the RwLock)
try_read_exclusive == writer = NoCaller /\ waitq = <<>> /\ readers = {}

try_read_ok == writer = NoCaller /\ waitq = <<>>

\* a write acquisition that does not wait for the read guards
write_ok_despite_readers == writer = NoCaller /\ waitq = <<>>

write_ok == writer = NoCaller /\ readers = {} /\ waitq = <<>>

\* a release that wakes no queued writer
UnlockWakesNobody(rs) ==
  /\ readers' = rs
  /\ writer' = NoCaller
  /\ waitq' = waitq

\* the lock after a guard is dropped, rs being the read guards still held
Unlock(rs) ==
  /\ readers' = rs
  /\ IF rs = {} /\ waitq # <<>>
       THEN writer' = Head(waitq) /\ waitq' = Tail(waitq)
       ELSE writer' = NoCaller /\ waitq' = waitq

(***************************************************************************)
(* Pool::new, extensions::client_pool::extension_with_events.              *)
(***************************************************************************)
\* the server as extension_with_events leaves it: the first Client in the pool,
\* no caller, no notification, no connection
InitServer ==
  /\ pool = connect_with_events(1, meta, configured)
  /\ built = 1
  /\ readers = {}
  /\ writer = NoCaller
  /\ waitq = <<>>
  /\ pc = [p \in Callers |-> "idle"]
  /\ seen = [p \in Callers |-> 0]
  /\ calls = [p \in Callers |-> 0]
  /\ got = [p \in Callers |-> 0]
  /\ notes = <<>>
  /\ chan = [e \in EventType |-> <<>>]
  /\ hchan = [e \in EventType |-> <<>>]
  /\ rx = [c \in Conns |-> "none"]
  /\ since = [c \in Conns |-> 0]
  /\ taken = [c \in Conns |-> <<>>]
  /\ asked = [c \in Conns |-> "none"]
  /\ refused = [c \in Conns |-> "none"]
  /\ conn = [c \in Conns |-> "none"]
  /\ inbox = [c \in Conns |-> <<>>]
  /\ frames = [c \in Conns |-> 0]
  /\ out = [c \in Conns |-> <<>>]

\* no connect_with_events call in progress
NoCtor == [phase |-> "none"]

\* no configuration being loaded
NoConf == [phase |-> "none"]

\* no request being handled
NoReq == [phase |-> "none"]

Init ==
  /\ meta \in PoolUrls
  /\ configured \in ConfiguredSets
  /\ InitServer
  /\ ctor = NoCtor
  /\ conf = NoConf
  /\ req = NoReq

(***************************************************************************)
(* Pool::get, one action per step of a call.                               *)
(***************************************************************************)
\* a task calls pool.get()
Call(p) ==
  /\ UNCHANGED <<nodeVars, endpointVars, socketVars, startVars>>
  /\ pc[p] = "idle"
  /\ pc' = [pc EXCEPT ![p] = "try_read"]
  /\ UNCHANGED <<meta, configured, pool, built, readers, writer, waitq, seen, calls, got>>

\* let elm = pool.try_read()?;
TryRead(p) ==
  /\ UNCHANGED <<nodeVars, endpointVars, socketVars, startVars>>
  /\ pc[p] = "try_read"
  /\ IF try_read_ok
       THEN /\ readers' = readers \cup {p}
            /\ pc' = [pc EXCEPT ![p] = "is_live"]
       ELSE /\ readers' = readers
            /\ pc' = [pc EXCEPT ![p] = "TryLockError"]
  /\ UNCHANGED <<meta, configured, pool, built, writer, waitq, seen, calls, got>>

\* if elm.is_live() { return Ok(elm) }   -- otherwise elm is dropped
CheckLive(p) ==
  /\ UNCHANGED <<nodeVars, endpointVars, socketVars, startVars>>
  /\ pc[p] = "is_live"
  /\ IF is_live(pool)
       THEN /\ pc' = [pc EXCEPT ![p] = "Ok"]
            /\ got' = [got EXCEPT ![p] = pool.id]
            /\ UNCHANGED <<readers, writer, waitq, seen>>
       ELSE /\ pc' = [pc EXCEPT ![p] = "write"]
            /\ seen' = [seen EXCEPT ![p] = pool.id]
            /\ Unlock(readers \ {p})
            /\ UNCHANGED got
  /\ UNCHANGED <<meta, configured, pool, built, calls>>

\* let mut elm = pool.write().await;   -- first poll
WriteRequest(p) ==
  /\ UNCHANGED <<nodeVars, endpointVars, socketVars, startVars>>
  /\ pc[p] = "write"
  /\ IF write_ok
       THEN /\ writer' = p
            /\ waitq' = waitq
            /\ pc' = [pc EXCEPT ![p] = "try_from"]
       ELSE /\ writer' = writer
            /\ waitq' = Append(waitq, p)
            /\ pc' = [pc EXCEPT ![p] = "write_wait"]
  /\ UNCHANGED <<meta, configured, pool, built, readers, seen, calls, got>>

\* a write().await after which liveness is checked again, the reconstruction
\* being skipped when a predecessor already installed a live T
WriteResumeRechecked(p) ==
  /\ UNCHANGED <<nodeVars, endpointVars, socketVars, startVars>>
  /\ pc[p] = "write_wait"
  /\ writer = p
  /\ IF is_live(pool)
       THEN /\ pc' = [pc EXCEPT ![p] = "reread"]
            /\ Unlock(readers)
       ELSE /\ pc' = [pc EXCEPT ![p] = "try_from"]
            /\ UNCHANGED <<readers, writer, waitq>>
  /\ UNCHANGED <<meta, configured, pool, built, seen, calls, got>>

\* pool.write().await resumes once the lock was handed to the caller
WriteResume(p) ==
  /\ UNCHANGED <<nodeVars, endpointVars, socketVars, startVars>>
  /\ pc[p] = "write_wait"
  /\ writer = p
  /\ pc' = [pc EXCEPT ![p] = "try_from"]
  /\ UNCHANGED <<meta, configured, pool, built, readers, writer, waitq, seen, calls, got>>

\* a refresh that connects but does not store the new T
TryFromOkNotStored(p) ==
  /\ UNCHANGED <<nodeVars, endpointVars, socketVars, startVars>>
  /\ pc[p] = "try_from"
  /\ built < MaxBuilds
  /\ built' = built + 1
  /\ calls' = [calls EXCEPT ![p] = @ + 1]
  /\ pc' = [pc EXCEPT ![p] = "reread"]
  /\ Unlock(readers)
  /\ UNCHANGED <<meta, configured, pool, seen, got>>

\* *elm = T::try_from(meta).await?;   -- connected: the new T is stored and
\* the write guard dropped at the end of the block
TryFromOk(p) ==
  /\ UNCHANGED <<nodeVars, endpointVars, socketVars, startVars>>
  /\ pc[p] = "try_from"
  /\ built < MaxBuilds
  /\ pool' = try_from(built + 1, meta)
  /\ built' = built + 1
  /\ calls' = [calls EXCEPT ![p] = @ + 1]
  /\ pc' = [pc EXCEPT ![p] = "reread"]
  /\ Unlock(readers)
  /\ UNCHANGED <<meta, configured, seen, got>>

\* a failed connect reported as lock contention
TryFromErrAsBusy(p) ==
  /\ UNCHANGED <<nodeVars, endpointVars, socketVars, startVars>>
  /\ pc[p] = "try_from"
  /\ calls' = [calls EXCEPT ![p] = @ + 1]
  /\ pc' = [pc EXCEPT ![p] = "TryLockError"]
  /\ Unlock(readers)
  /\ UNCHANGED <<meta, configured, pool, built, seen, got>>

\* a failed connect retried inside get()
TryFromErrRetried(p) ==
  /\ UNCHANGED <<nodeVars, endpointVars, socketVars, startVars>>
  /\ pc[p] = "try_from"
  /\ calls' = [calls EXCEPT ![p] = @ + 1]
  /\ UNCHANGED <<meta, configured, pool, built, readers, writer, waitq, pc, seen, got>>

\* a failed connect after which the write guard is never dropped
TryFromErrKeepsLock(p) ==
  /\ UNCHANGED <<nodeVars, endpointVars, socketVars, startVars>>
  /\ pc[p] = "try_from"
  /\ calls' = [calls EXCEPT ![p] = @ + 1]
  /\ pc' = [pc EXCEPT ![p] = "PoolError"]
  /\ UNCHANGED <<meta, configured, pool, built, readers, writer, waitq, seen, got>>

\* *elm = T::try_from(meta).await?;   -- connect failed: `?` returns the
\* error, dropping the write guard
TryFromErr(p) ==
  /\ UNCHANGED <<nodeVars, endpointVars, socketVars, startVars>>
  /\ pc[p] = "try_from"
  /\ calls' = [calls EXCEPT ![p] = @ + 1]
  /\ pc' = [pc EXCEPT ![p] = "PoolError"]
  /\ Unlock(readers)
  /\ UNCHANGED <<meta, configured, pool, built, seen, got>>

\* Ok(pool.try_read()?)
ReRead(p) ==
  /\ UNCHANGED <<nodeVars, endpointVars, socketVars, startVars>>
  /\ pc[p] = "reread"
  /\ IF try_read_ok
       THEN /\ readers' = readers \cup {p}
            /\ pc' = [pc EXCEPT ![p] = "Ok"]
            /\ got' = [got EXCEPT ![p] = pool.id]
       ELSE /\ readers' = readers
            /\ pc' = [pc EXCEPT ![p] = "TryLockError"]
            /\ got' = got
  /\ UNCHANGED <<meta, configured, pool, built, writer, waitq, seen, calls>>

\* the call is over: what was recorded about it is forgotten
Forget(p) ==
  /\ seen' = [seen EXCEPT ![p] = 0]
  /\ calls' = [calls EXCEPT ![p] = 0]
  /\ got' = [got EXCEPT ![p] = 0]

\* the caller drops the RwLockReadGuard it was given
DropHandle(p) ==
  /\ UNCHANGED <<nodeVars, endpointVars, socketVars, startVars>>
  /\ pc[p] = "Ok"
  /\ pc' = [pc EXCEPT ![p] = "idle"]
  /\ Unlock(readers \ {p})
  /\ Forget(p)
  /\ UNCHANGED <<meta, configured, pool, built>>

\* the caller takes the Err(..) get() returned
TakeError(p) ==
  /\ UNCHANGED <<nodeVars, endpointVars, socketVars, startVars>>
  /\ pc[p] \in {"TryLockError", "PoolError"}
  /\ pc' = [pc EXCEPT ![p] = "idle"]
  /\ Forget(p)
  /\ UNCHANGED <<meta, configured, pool, built, readers, writer, waitq>>

(***************************************************************************)
(* The node side: the transport of the held client goes down, and comes    *)
(* back when the transport reconnects by itself.                           *)
(***************************************************************************)
TransportDown ==
  /\ UNCHANGED <<nodeVars, endpointVars, socketVars, startVars>>
  /\ pool.connected
  /\ pool' = [pool EXCEPT !.connected = FALSE, !.dropped = TRUE]
  /\ UNCHANGED <<meta, configured, built, readers, writer, waitq, pc, seen, calls, got>>

TransportUp ==
  /\ UNCHANGED <<nodeVars, endpointVars, socketVars, startVars>>
  /\ ~pool.connected
  /\ pool' = [pool EXCEPT !.connected = TRUE]
  /\ UNCHANGED <<meta, configured, built, readers, writer, waitq, pc, seen, calls, got>>

Next ==
  \/ \E p \in Callers : Call(p)
  \/ \E p \in Callers : TryRead(p)
  \/ \E p \in Callers : CheckLive(p)
  \/ \E p \in Callers : WriteRequest(p)
  \/ \E p \in Callers : WriteResume(p)
  \/ \E p \in Callers : TryFromOk(p)
  \/ \E p \in Callers : TryFromErr(p)
  \/ \E p \in Callers : ReRead(p)
  \/ \E p \in Callers : DropHandle(p)
  \/ \E p \in Callers : TakeError(p)
  \/ TransportDown
  \/ TransportUp

Spec == Init /\ [][Next]_vars

(***************************************************************************)
(* Cancellation.  get() is an async fn: when the request's future is       *)
(* dropped (the TimeoutLayer fires, the client goes away) while get() is   *)
(* suspended in pool.write().await or in T::try_from(meta).await, the      *)
(* future of get() is dropped there, with the guard it holds and the       *)
(* try_from future it was polling.                                         *)
(***************************************************************************)
Cancel(p) ==
  /\ UNCHANGED <<nodeVars, endpointVars, socketVars, startVars>>
  /\ pc[p] \in {"write_wait", "try_from"}
  /\ pc' = [pc EXCEPT ![p] = "idle"]
  /\ Forget(p)
  /\ IF writer = p
       THEN Unlock(readers)
       ELSE /\ waitq' = LET others(x) == x # p IN SelectSeq(waitq, others)
            /\ UNCHANGED <<readers, writer>>
  /\ UNCHANGED <<meta, configured, pool, built>>

NextCancel ==
  \/ Next
  \/ \E p \in Callers : Cancel(p)

SpecCancel == Init /\ [][NextCancel]_vars

(***************************************************************************)
(* Pool::get under a fair scheduler: a get() that can take its next step   *)
(* takes it, T::try_from returns (Ok or Err), and a caller that was given  *)
(* a read guard drops it.  Nothing is assumed about the transport or about *)
(* new calls.                                                              *)
(***************************************************************************)
NumFairCallers == 2

FairCallers == 1..NumFairCallers

GetStep(p) ==
  \/ TryRead(p)
  \/ CheckLive(p)
  \/ WriteRequest(p)
  \/ WriteResume(p)
  \/ TryFromOk(p)
  \/ TryFromErr(p)
  \/ ReRead(p)

NextGet ==
  \/ \E p \in FairCallers : Call(p)
  \/ \E p \in FairCallers : GetStep(p)
  \/ \E p \in FairCallers : DropHandle(p)
  \/ \E p \in FairCallers : TakeError(p)
  \/ TransportDown
  \/ TransportUp

FairGet ==
  /\ Init
  /\ [][NextGet]_vars
  /\ \A p \in FairCallers : WF_vars(GetStep(p)) /\ WF_vars(DropHandle(p))

(***************************************************************************)
(* The node publishes a notification.  With the Grpc client the library    *)
(* pushes it into the channel Listener::subscribe registered for its type; *)
(* with the Wrpc client WrpcEventHandler::handle_notification hands it to  *)
(* the handler's own Listener of that type (Listener::handle_wrpc_event),  *)
(* whose channel subscribe_wrpc created apart from the ListenerManager's.  *)
(***************************************************************************)
Publish(e) ==
  /\ Len(notes) < MaxNotes
  /\ notes' = Append(notes, e)
  /\ IF pool.variant = "Grpc"
       THEN /\ chan' = IF e \in pool.listeners
                         THEN [chan EXCEPT ![e] = Append(@, Len(notes) + 1)]
                         ELSE chan
            /\ hchan' = hchan
       ELSE /\ hchan' = IF e \in pool.listeners
                          THEN [hchan EXCEPT ![e] = Append(@, Len(notes) + 1)]
                          ELSE hchan
            /\ chan' = chan
  /\ UNCHANGED <<poolVars, endpointVars, socketVars, startVars>>

(***************************************************************************)
(* Receive endpoints.  State::from_request_parts takes the client from     *)
(* pool.get() (here its fast path: the read guard is taken and dropped in  *)
(* the same step) and clones the receiver; ListenerManager::get hands out  *)
(* listener.receiver().  The clones read one multi-consumer channel.       *)
(***************************************************************************)
\* a lookup that hands out an endpoint for a type that has no Listener
ListenerManager_get_or_default(client, e) == [rx |-> e, err |-> "none"]

\* ListenerManager::get: Ok(listener.receiver()) or Err(AppError::NotFound)
ListenerManager_get(client, e) ==
  IF e \in client.listeners THEN [rx |-> e, err |-> "none"]
  ELSE [rx |-> "none", err |-> "NotFound"]

\* Error::status_code
status_code(err) ==
  CASE err \in {"Config", "StdIoError", "DieselError", "TondiScanDbError",
                "InternalServerError", "Generic"} -> 500
    [] err \in {"StdNetAddrParseError", "BadRequest"} -> 400
    [] err \in {"TonicTransportError", "DieselR2d2PoolError",
                "DieselConnectionError", "ClientPoolError",
                "ServiceUnavailable"} -> 503
    [] err = "NotFound" -> 404
    [] err = "Forbidden" -> 403

ObtainEndpoint(c, e) ==
  /\ rx[c] = "none"
  /\ try_read_ok
  /\ is_live(pool)
  /\ asked' = [asked EXCEPT ![c] = e]
  /\ rx' = [rx EXCEPT ![c] = ListenerManager_get(pool, e).rx]
  /\ refused' = [refused EXCEPT ![c] = ListenerManager_get(pool, e).err]
  /\ since' = IF ListenerManager_get(pool, e).err = "none"
                THEN [since EXCEPT ![c] = Len(notes)]
                ELSE since
  /\ UNCHANGED <<poolVars, nodeVars, taken, socketVars, startVars>>

\* recv() on a cloned receiver: the head of the shared channel is removed
EndpointRecv(c) ==
  /\ rx[c] # "none"
  /\ chan[rx[c]] # <<>>
  /\ taken' = [taken EXCEPT ![c] = Append(@, Head(chan[rx[c]]))]
  /\ chan' = [chan EXCEPT ![rx[c]] = Tail(@)]
  /\ UNCHANGED <<poolVars, notes, hchan, rx, since, asked, refused, socketVars, startVars>>

\* the event types connections ask an endpoint for in the model: the published
\* ones and one that is outside the default configured set
AskedTypes == PublishedTypes \cup { "finality-conflict" }

NextEndpoints ==
  \/ \E e \in PublishedTypes : Publish(e)
  \/ \E c \in Conns, e \in AskedTypes : ObtainEndpoint(c, e)
  \/ \E c \in Conns : EndpointRecv(c)

SpecEndpoints == Init /\ [][NextEndpoints]_vars

(***************************************************************************)
(* routes/websocket/mod.rs: handler, handle_socket, handle_text_message.   *)
(***************************************************************************)
\* what socket.recv() can yield: text frames by their "type", text without a
\* type, text that is not JSON, a Close frame, another frame, an error, None
TextTypes == { "ping", "subscribe", "unsubscribe", "get_status", "get_events", "unknown" }

FrameKinds == TextTypes \cup { "no_type", "bad_json", "Close", "Binary", "RecvError", "None" }

Msg(kind, name, content) == [kind |-> kind, name |-> name, content |-> content]

\* the text of SystemTime::now() .. .as_secs(), whatever the clock reads
Timestamp == "timestamp"

\* a handle_text_message whose pong carries no timestamp
ReplyToBarePong(f) ==
  CASE f = "ping" -> Msg("type", "pong", "")
    [] f = "subscribe" -> Msg("type", "subscribed", "Event subscription successful")
    [] f = "unsubscribe" -> Msg("type", "unsubscribed", "Event unsubscription successful")
    [] f = "get_status" -> Msg("type", "status", "connected")
    [] f = "get_events" -> Msg("type", "events", "")
    [] f = "unknown" -> Msg("type", "error", "Unknown message type")
    [] OTHER -> Msg("type", "error", "Missing message type")

\* handle_text_message: the message sent for a text frame that parses, by its
\* "type" field and its "message" field ("status" for get_status, the empty
\* "events" list for get_events)
ReplyTo(f) ==
  CASE f = "ping" -> Msg("type", "pong", Timestamp)
    [] f = "subscribe" -> Msg("type", "subscribed", "Event subscription successful")
    [] f = "unsubscribe" -> Msg("type", "unsubscribed", "Event unsubscription successful")
    [] f = "get_status" -> Msg("type", "status", "connected")
    [] f = "get_events" -> Msg("type", "events", "")
    [] f = "unknown" -> Msg("type", "error", "Unknown message type")
    [] OTHER -> Msg("type", "error", "Missing message type")

\* ws.on_upgrade: the handler task of a connection starts
Upgrade(c) ==
  /\ conn[c] = "none"
  /\ conn' = [conn EXCEPT ![c] = "Upgrading"]
  /\ UNCHANGED <<poolVars, nodeVars, endpointVars, startVars, inbox, frames, out>>

\* a handle_socket that goes on to the receive loop when the welcome message
\* could not be sent
WelcomeIgnoresFailure(c) ==
  /\ conn[c] = "Upgrading"
  /\ \E sent \in BOOLEAN :
       /\ out' = IF sent
                   THEN [out EXCEPT ![c] = Append(@, Msg("type", "welcome", "Connected to Tondi Scan WebSocket"))]
                   ELSE out
       /\ conn' = [conn EXCEPT ![c] = "Streaming"]
       /\ inbox' = inbox
  /\ UNCHANGED <<poolVars, nodeVars, endpointVars, startVars, frames>>

\* send_message(&mut socket, "welcome", ..).await?
Welcome(c) ==
  /\ conn[c] = "Upgrading"
  /\ \E sent \in BOOLEAN :
       IF sent
         THEN /\ out' = [out EXCEPT ![c] = Append(@, Msg("type", "welcome", "Connected to Tondi Scan WebSocket"))]
              /\ conn' = [conn EXCEPT ![c] = "Streaming"]
              /\ inbox' = inbox
         ELSE /\ out' = out
              /\ conn' = [conn EXCEPT ![c] = "Closed"]
              /\ inbox' = [inbox EXCEPT ![c] = <<>>]
  /\ UNCHANGED <<poolVars, nodeVars, endpointVars, startVars, frames>>

\* the browser sends a frame, closes, or the inbound stream fails or ends
BrowserSend(c, f) ==
  /\ conn[c] \in {"Upgrading", "Streaming"}
  /\ frames[c] < MaxFrames
  /\ frames' = [frames EXCEPT ![c] = @ + 1]
  /\ inbox' = [inbox EXCEPT ![c] = Append(@, f)]
  /\ UNCHANGED <<poolVars, nodeVars, endpointVars, startVars, conn, out>>

\* a handler whose exit takes every connection's handler down with it
HandleFrameClosesAll(c) ==
  /\ conn[c] = "Streaming"
  /\ inbox[c] # <<>>
  /\ LET f == Head(inbox[c]) IN
       \E sent \in BOOLEAN :
         IF f \in TextTypes \cup {"no_type"} /\ sent
           THEN /\ out' = [out EXCEPT ![c] = Append(@, ReplyTo(f))]
                /\ conn' = conn
                /\ inbox' = [inbox EXCEPT ![c] = Tail(@)]
           ELSE IF f \in {"Binary", "RecvError"}
             THEN /\ out' = out
                  /\ conn' = conn
                  /\ inbox' = [inbox EXCEPT ![c] = Tail(@)]
             ELSE /\ out' = out
                  /\ conn' = [d \in Conns |-> "Closed"]
                  /\ inbox' = [d \in Conns |-> <<>>]
  /\ UNCHANGED <<poolVars, nodeVars, endpointVars, startVars, frames>>

\* one turn of `while let Some(msg) = socket.recv().await { match msg .. }`
HandleFrame(c) ==
  /\ conn[c] = "Streaming"
  /\ inbox[c] # <<>>
  /\ LET f == Head(inbox[c]) IN
       \E sent \in BOOLEAN :
         IF f \in TextTypes \cup {"no_type"} /\ sent
           THEN /\ out' = [out EXCEPT ![c] = Append(@, ReplyTo(f))]
                /\ conn' = conn
                /\ inbox' = [inbox EXCEPT ![c] = Tail(@)]
           ELSE IF f \in {"Binary", "RecvError"}
             THEN /\ out' = out
                  /\ conn' = conn
                  /\ inbox' = [inbox EXCEPT ![c] = Tail(@)]
             ELSE /\ out' = out
                  /\ conn' = [conn EXCEPT ![c] = "Closed"]
                  /\ inbox' = [inbox EXCEPT ![c] = <<>>]
  /\ UNCHANGED <<poolVars, nodeVars, endpointVars, startVars, frames>>

NextSocket ==
  \/ \E e \in PublishedTypes : Publish(e)
  \/ \E c \in Conns : Upgrade(c)
  \/ \E c \in Conns : Welcome(c)
  \/ \E c \in Conns, f \in FrameKinds : BrowserSend(c, f)
  \/ \E c \in Conns : HandleFrame(c)

SpecSocket == Init /\ [][NextSocket]_vars

\* a text frame, whose reply can fail to be sent, a Close frame and the end of
\* the inbound stream
CloseFrames == { "ping", "Close", "None" }

\* the socket handlers alone, the node publishing nothing
NextClose ==
  \/ \E c \in Conns : Upgrade(c)
  \/ \E c \in Conns : Welcome(c)
  \/ \E c \in Conns, f \in CloseFrames : BrowserSend(c, f)
  \/ \E c \in Conns : HandleFrame(c)

SpecClose == Init /\ [][NextClose]_vars

\* the connection a single session is followed on
FirstConn == CHOOSE c \in Conns : \A d \in Conns : c <= d

\* the browser sends one more frame of a session
SessionSend(c, f) ==
  /\ conn[c] \in {"Upgrading", "Streaming"}
  /\ frames[c] < MaxSessionFrames
  /\ frames' = [frames EXCEPT ![c] = @ + 1]
  /\ inbox' = [inbox EXCEPT ![c] = Append(@, f)]
  /\ UNCHANGED <<poolVars, nodeVars, endpointVars, startVars, conn, out>>

\* one browser connection from its upgrade to its end, every kind of frame
NextSession ==
  \/ Upgrade(FirstConn)
  \/ Welcome(FirstConn)
  \/ \E f \in FrameKinds : SessionSend(FirstConn, f)
  \/ HandleFrame(FirstConn)

SpecSession == Init /\ [][NextSession]_vars

\* the runtime keeps polling a handler task that can make progress
FairSocket ==
  /\ SpecSocket
  /\ \A c \in Conns : WF_vars(Welcome(c)) /\ WF_vars(HandleFrame(c))

(***************************************************************************)
(* Client::connect_with_events, one action per step of a call.  The URL is *)
(* a text made of tokens; starts_with and contains are what the code asks  *)
(* of it.  The event list is a slice and may name a type more than once.   *)
(***************************************************************************)
UrlTokens == { "ws", "wss", "grpc", "http", "https", "ftp", "://", ":", "host", "16110" }

SeqsUpTo(S, n) == UNION { [1 .. k -> S] : k \in 0 .. n }

\* the URL texts connect_with_events is called with in the model
UrlTexts == SeqsUpTo(UrlTokens, MaxUrlLen)

\* a WebSocket-RPC URL, a binary-RPC URL and a bare host:port
ConnectUrls == { <<"ws", "://", "host">>, <<"grpc", "://", "host">>, <<"host", ":", "16110">> }

\* the event lists connect_with_events is called with in the model
EventLists == SeqsUpTo(EventType, MaxEvents)

\* str::starts_with
starts_with(text, prefix) ==
  Len(text) >= Len(prefix) /\ SubSeq(text, 1, Len(prefix)) = prefix

\* str::contains, toks being the tokens the pattern occurs in
contains(text, toks) == \E k \in DOMAIN text : text[k] \in toks

\* the prefix among those connect_with_events tests that the text starts with
PrefixOf(text) ==
  IF starts_with(text, <<"ws", "://">>) THEN "ws://"
  ELSE IF starts_with(text, <<"wss", "://">>) THEN "wss://"
  ELSE IF starts_with(text, <<"grpc", "://">>) THEN "grpc://"
  ELSE IF starts_with(text, <<"http", "://">>) THEN "http://"
  ELSE IF starts_with(text, <<"https", "://">>) THEN "https://"
  ELSE ""

\* what connect_with_events looks at in a URL text
UrlOf(text) ==
  Url(PrefixOf(text), contains(text, {":", "://"}), contains(text, {"://"}))

\* no Client: connect_with_events has not returned one
NoClient ==
  [ id |-> 0, variant |-> "none", listeners |-> {}, connected |-> FALSE,
    dropped |-> FALSE ]

\* a connect_with_events(url, events) call about to run
StartCtor(url, events) ==
  [ phase      |-> "start",
    given      |-> url,      \* the URL the caller passed
    url        |-> url,      \* the URL of the (possibly recursive) call
    events     |-> events,
    variant    |-> "none",
    dialed     |-> 0,        \* transport connections attempted
    i          |-> 1,        \* position in the subscription loop
    hlisteners |-> <<>>,     \* WrpcEventHandler.listeners: event type -> Listener id
    listeners  |-> <<>>,     \* ListenerManager.listeners: event type -> Listener id
    created    |-> 0,        \* Listeners created so far
    node       |-> {},       \* subscriptions started at the node: <<id, type>>
    task       |-> FALSE,    \* the handler's background task is spawned
    client     |-> NoClient ] \* the Client returned

InitConnect ==
  /\ meta = Url("ws://", TRUE, TRUE)
  /\ configured = default_enabled_events
  /\ InitServer
  /\ conf = NoConf
  /\ req = NoReq
  /\ ctor \in { StartCtor(u, <<>>) : u \in UrlTexts }
              \cup { StartCtor(u, evs) : u \in ConnectUrls, evs \in EventLists }

\* the event types the ListenerManager constructor iterates over
Requested(c) == IF c.variant = "Wrpc" THEN c.events ELSE all_event_types_vec

\* the final else branch: Err("Unsupported URL format")
CtorUnsupported ==
  /\ ctor.phase = "start"
  /\ VariantOf(UrlOf(ctor.url)) = "Unsupported"
  /\ ctor' = [ctor EXCEPT !.phase = "failed"]
  /\ UNCHANGED <<poolVars, nodeVars, endpointVars, socketVars, conf, req>>

\* the auto-detect branch: connect_with_events(format!("ws://{}", url), events)
CtorRedirect ==
  /\ ctor.phase = "start"
  /\ PrefixOf(ctor.url) = ""
  /\ VariantOf(UrlOf(ctor.url)) = "Wrpc"
  /\ ctor' = [ctor EXCEPT !.url = <<"ws", "://">> \o @]
  /\ UNCHANGED <<poolVars, nodeVars, endpointVars, socketVars, conf, req>>

\* inner.connect(..).await? / GrpcClient::connect_with_args(..).await?
CtorTransport ==
  /\ ctor.phase = "start"
  /\ PrefixOf(ctor.url) # ""
  /\ \E ok \in BOOLEAN :
       ctor' = [ctor EXCEPT
                  !.dialed = @ + 1,
                  !.variant = VariantOf(UrlOf(ctor.url)),
                  !.phase = IF ~ok THEN "failed"
                            ELSE IF VariantOf(UrlOf(ctor.url)) = "Wrpc" THEN "handler"
                            ELSE "subscribe"]
  /\ UNCHANGED <<poolVars, nodeVars, endpointVars, socketVars, conf, req>>

\* WrpcEventHandler::start_listening: one turn of its loop
CtorHandlerSubscribe ==
  /\ ctor.phase = "handler"
  /\ ctor.i <= Len(ctor.events)
  /\ ctor' = [ctor EXCEPT
                !.created = @ + 1,
                !.hlisteners = (ctor.events[ctor.i] :> (ctor.created + 1)) @@ @,
                !.i = @ + 1]
  /\ UNCHANGED <<poolVars, nodeVars, endpointVars, socketVars, conf, req>>

\* WrpcEventHandler::start_websocket_listening: tokio::spawn of the read loop
CtorHandlerSpawn ==
  /\ ctor.phase = "handler"
  /\ ctor.i > Len(ctor.events)
  /\ ctor' = [ctor EXCEPT !.task = TRUE, !.phase = "subscribe", !.i = 1]
  /\ UNCHANGED <<poolVars, nodeVars, endpointVars, socketVars, conf, req>>

\* a subscription loop that goes on to the next type when start_notify fails
CtorSubscribeSkipFailed ==
  /\ ctor.phase = "subscribe"
  /\ ctor.i <= Len(Requested(ctor))
  /\ LET ev == Requested(ctor)[ctor.i]
         id == ctor.created + 1
     IN  \E ok \in BOOLEAN :
           IF ctor.variant = "Wrpc" \/ ok
             THEN ctor' = [ctor EXCEPT
                             !.created = id,
                             !.listeners = (ev :> id) @@ @,
                             !.node = IF ctor.variant = "Wrpc" THEN @
                                      ELSE @ \cup {<<id, ev>>},
                             !.i = @ + 1]
             ELSE ctor' = [ctor EXCEPT !.created = id, !.i = @ + 1]
  /\ UNCHANGED <<poolVars, nodeVars, endpointVars, socketVars, conf, req>>

\* one turn of the loop of ListenerManager::new_wrpc (Listener::subscribe_wrpc,
\* which always returns Ok and starts nothing at the node) or of
\* ListenerManager::new (Listener::subscribe: register_new_listener, then
\* start_notify(..).await?)
CtorSubscribe ==
  /\ ctor.phase = "subscribe"
  /\ ctor.i <= Len(Requested(ctor))
  /\ LET ev == Requested(ctor)[ctor.i]
         id == ctor.created + 1
     IN  \E ok \in BOOLEAN :
           IF ctor.variant = "Wrpc" \/ ok
             THEN ctor' = [ctor EXCEPT
                             !.created = id,
                             !.listeners = (ev :> id) @@ @,
                             !.node = IF ctor.variant = "Wrpc" THEN @
                                      ELSE @ \cup {<<id, ev>>},
                             !.i = @ + 1]
             ELSE ctor' = [ctor EXCEPT !.created = id, !.phase = "failed"]
  /\ UNCHANGED <<poolVars, nodeVars, endpointVars, socketVars, conf, req>>

\* Ok(Self::Wrpc(..)) / Ok(Self::Grpc(..))
CtorDone ==
  /\ ctor.phase = "subscribe"
  /\ ctor.i > Len(Requested(ctor))
  /\ ctor' = [ctor EXCEPT
                !.phase = "done",
                !.client = [ id        |-> 1,
                             variant   |-> ctor.variant,
                             listeners |-> DOMAIN ctor.listeners,
                             connected |-> TRUE,
                             dropped   |-> FALSE ]]
  /\ UNCHANGED <<poolVars, nodeVars, endpointVars, socketVars, conf, req>>

NextConnect ==
  \/ CtorUnsupported
  \/ CtorRedirect
  \/ CtorTransport
  \/ CtorHandlerSubscribe
  \/ CtorHandlerSpawn
  \/ CtorSubscribe
  \/ CtorDone

SpecConnect == InitConnect /\ [][NextConnect]_vars

(***************************************************************************)
(* ctx/event_config.rs and ctx/config.rs: event identifiers, EventConfig   *)
(* and its validation, and the loading of the configuration at startup.    *)
(***************************************************************************)
\* the enumerators of enum EventType
EventTypeVariants ==
  { "BlockAdded", "VirtualChainChanged", "FinalityConflict",
    "FinalityConflictResolved", "UtxosChanged", "SinkBlueScoreChanged",
    "VirtualDaaScoreChanged", "PruningPointUtxoSetOverride", "NewBlockTemplate" }

\* Ok(enumerator) / Err(message)
Parsed(ok, val) == [ok |-> ok, val |-> val]

\* a parse that accepts a capitalised spelling of an identifier
from_str_any_case(s) ==
  CASE s \in {"block-added", "Block-Added", "BLOCK-ADDED"} -> Parsed(TRUE, "BlockAdded")
    [] s = "virtual-chain-changed" -> Parsed(TRUE, "VirtualChainChanged")
    [] s = "finality-conflict" -> Parsed(TRUE, "FinalityConflict")
    [] s = "finality-conflict-resolved" -> Parsed(TRUE, "FinalityConflictResolved")
    [] s = "utxos-changed" -> Parsed(TRUE, "UtxosChanged")
    [] s = "sink-blue-score-changed" -> Parsed(TRUE, "SinkBlueScoreChanged")
    [] s = "virtual-daa-score-changed" -> Parsed(TRUE, "VirtualDaaScoreChanged")
    [] s = "pruning-point-utxo-set-override" -> Parsed(TRUE, "PruningPointUtxoSetOverride")
    [] s = "new-block-template" -> Parsed(TRUE, "NewBlockTemplate")
    [] OTHER -> Parsed(FALSE, "Unknown event type")

\* <EventType as FromStr>::from_str
from_str(s) ==
  CASE s = "block-added" -> Parsed(TRUE, "BlockAdded")
    [] s = "virtual-chain-changed" -> Parsed(TRUE, "VirtualChainChanged")
    [] s = "finality-conflict" -> Parsed(TRUE, "FinalityConflict")
    [] s = "finality-conflict-resolved" -> Parsed(TRUE, "FinalityConflictResolved")
    [] s = "utxos-changed" -> Parsed(TRUE, "UtxosChanged")
    [] s = "sink-blue-score-changed" -> Parsed(TRUE, "SinkBlueScoreChanged")
    [] s = "virtual-daa-score-changed" -> Parsed(TRUE, "VirtualDaaScoreChanged")
    [] s = "pruning-point-utxo-set-override" -> Parsed(TRUE, "PruningPointUtxoSetOverride")
    [] s = "new-block-template" -> Parsed(TRUE, "NewBlockTemplate")
    [] OTHER -> Parsed(FALSE, "Unknown event type")

\* <EventType as Display>::fmt
to_string(e) ==
  CASE e = "BlockAdded" -> "block-added"
    [] e = "VirtualChainChanged" -> "virtual-chain-changed"
    [] e = "FinalityConflict" -> "finality-conflict"
    [] e = "FinalityConflictResolved" -> "finality-conflict-resolved"
    [] e = "UtxosChanged" -> "utxos-changed"
    [] e = "SinkBlueScoreChanged" -> "sink-blue-score-changed"
    [] e = "VirtualDaaScoreChanged" -> "virtual-daa-score-changed"
    [] e = "PruningPointUtxoSetOverride" -> "pruning-point-utxo-set-override"
    [] e = "NewBlockTemplate" -> "new-block-template"

\* the strings from_str is given in the model: the nine identifiers, the empty
\* string, case variants, a near miss and an unknown name
EventStrings ==
  EventType \cup { "", "Block-Added", "BLOCK-ADDED", "block_added", "invalid-event" }

\* EventStrategy
RealTime == [tag |-> "RealTime"]

Batch(size, timeout) ==
  [tag |-> "Batch", batch_size |-> size, batch_timeout_ms |-> timeout]

Priority(high, medium, low) ==
  [tag |-> "Priority", high_priority |-> high, medium_priority |-> medium,
   low_priority |-> low]

\* EventConfig, by the fields validate reads
EventConfig(enabled, strategy) ==
  [enabled_events |-> enabled, event_strategy |-> strategy]

\* EventConfig::parse_event_types
parse_event_types(cfg) ==
  IF \A k \in DOMAIN cfg.enabled_events : from_str(cfg.enabled_events[k]).ok
    THEN [ok |-> TRUE,
          val |-> { from_str(cfg.enabled_events[k]).val : k \in DOMAIN cfg.enabled_events }]
    ELSE [ok |-> FALSE, val |-> "Invalid event type"]

\* a validate that does not look at batch_timeout_ms
validate_without_timeout(cfg) ==
  LET st == cfg.event_strategy IN
    IF ~parse_event_types(cfg).ok THEN "Invalid event type"
    ELSE IF st.tag = "Batch" /\ st.batch_size = 0
      THEN "Batch size must be greater than 0"
    ELSE IF st.tag = "Priority"
            /\ \E str \in Range(st.high_priority) \cup Range(st.medium_priority)
                            \cup Range(st.low_priority) : ~from_str(str).ok
      THEN "Invalid priority event type"
    ELSE "Ok"

\* EventConfig::validate
validate(cfg) ==
  LET st == cfg.event_strategy IN
    IF ~parse_event_types(cfg).ok THEN "Invalid event type"
    ELSE IF st.tag = "Batch" /\ st.batch_size = 0
      THEN "Batch size must be greater than 0"
    ELSE IF st.tag = "Batch" /\ st.batch_timeout_ms = 0
      THEN "Batch timeout must be greater than 0"
    ELSE IF st.tag = "Priority"
            /\ \E str \in Range(st.high_priority) \cup Range(st.medium_priority)
                            \cup Range(st.low_priority) : ~from_str(str).ok
      THEN "Invalid priority event type"
    ELSE "Ok"

\* the event strings of the configurations validate is given in the model
ConfigStrings == { "block-added", "utxos-changed", "Block-Added", "" }

TierStrings == { "new-block-template", "bogus-event" }

Strategies ==
  { RealTime }
    \cup { Batch(n, t) : n \in 0 .. MaxBatch, t \in 0 .. MaxBatch }
    \cup { Priority(h, m, l) : h \in SeqsUpTo(TierStrings, MaxTier),
                               m \in SeqsUpTo(TierStrings, MaxTier),
                               l \in SeqsUpTo(TierStrings, MaxTier) }

EventConfigs ==
  { EventConfig(en, st) : en \in SeqsUpTo(ConfigStrings, MaxEnabled), st \in Strategies }

\* an environment variable: not set (a list-valued one, a text-valued one), or
\* set to a value
Unset == [set |-> FALSE, val |-> <<>>]

UnsetText == [set |-> FALSE, val |-> ""]

Set(val) == [set |-> TRUE, val |-> val]

\* str::trim of one item of a comma-separated value
trim(item) == IF item = " utxos-changed " THEN "utxos-changed" ELSE item

\* value.split(',').map(trim).filter(non-empty).collect(), the value being kept
\* as the sequence of its comma-separated items
RECURSIVE split_trim(_)
split_trim(items) ==
  IF items = <<>> THEN <<>>
  ELSE IF trim(Head(items)) = "" THEN split_trim(Tail(items))
  ELSE <<trim(Head(items))>> \o split_trim(Tail(items))

\* str::parse::<usize>() of the texts the model sets the batch variables to
parse_usize(text) ==
  CASE text = "0" -> [ok |-> TRUE, val |-> 0]
    [] text = "5" -> [ok |-> TRUE, val |-> 5]
    [] text = "100" -> [ok |-> TRUE, val |-> 100]
    [] OTHER -> [ok |-> FALSE, val |-> 0]

\* env::var(..).unwrap_or_else(|_| "100").parse().unwrap_or(100)
batch_param(var) ==
  LET p == parse_usize(IF var.set THEN var.val ELSE "100")
  IN  IF p.ok THEN p.val ELSE 100

\* env::var(..).unwrap_or_else(|_| default).split(',')...collect()
tier_param(var, default) == split_trim(IF var.set THEN var.val ELSE default)

\* fn default_enabled_events
default_enabled_events_vec == << "block-added", "utxos-changed", "virtual-chain-changed" >>

\* the environment variables Config::from_env reads for the event configuration
Env(events, strategy, size, timeout, high, medium, low) ==
  [ ENABLED_EVENTS         |-> events,
    EVENT_STRATEGY         |-> strategy,
    BATCH_SIZE             |-> size,
    BATCH_TIMEOUT_MS       |-> timeout,
    HIGH_PRIORITY_EVENTS   |-> high,
    MEDIUM_PRIORITY_EVENTS |-> medium,
    LOW_PRIORITY_EVENTS    |-> low ]

\* Config::from_env, event part: the EventConfig built from the environment
events_from_env(env) ==
  EventConfig(
    IF env.ENABLED_EVENTS.set THEN split_trim(env.ENABLED_EVENTS.val)
    ELSE default_enabled_events_vec,
    IF ~env.EVENT_STRATEGY.set THEN RealTime
    ELSE IF env.EVENT_STRATEGY.val = "batch"
      THEN Batch(batch_param(env.BATCH_SIZE), batch_param(env.BATCH_TIMEOUT_MS))
    ELSE IF env.EVENT_STRATEGY.val = "priority"
      THEN Priority(tier_param(env.HIGH_PRIORITY_EVENTS, <<"block-added", "utxos-changed">>),
                    tier_param(env.MEDIUM_PRIORITY_EVENTS, <<"virtual-chain-changed">>),
                    tier_param(env.LOW_PRIORITY_EVENTS, <<"new-block-template">>))
    ELSE RealTime)

\* Config::validate with every other setting at its default: the host port,
\* the database URL and the wRPC settings pass, the event configuration decides
Config_validate(events) ==
  IF validate(events) # "Ok" THEN "InvalidEventConfig" ELSE "Ok"

\* Config::from_env: Err(ConfigError) or Ok(config)
from_env(env) ==
  [ result |-> Config_validate(events_from_env(env)),
    events |-> events_from_env(env) ]

\* the values the model sets the environment variables to
RawItems == { "block-added", " utxos-changed ", "Block-Added", "" }

StrategyTexts == { "realtime", "Batch", "bogus" }

BatchTexts == { "0", "5", "abc" }

EnabledValues == { Unset } \cup { Set(v) : v \in SeqsUpTo(RawItems, MaxEnabled) }

BatchValues == { UnsetText } \cup { Set(v) : v \in BatchTexts }

TierValues == { Unset } \cup { Set(v) : v \in SeqsUpTo(TierStrings, MaxTier) }

Envs ==
  { Env(ev, st, UnsetText, UnsetText, Unset, Unset, Unset) :
      ev \in EnabledValues, st \in { UnsetText } \cup { Set(v) : v \in StrategyTexts } }
    \cup { Env(ev, Set("batch"), n, t, Unset, Unset, Unset) :
             ev \in EnabledValues, n \in BatchValues, t \in BatchValues }
    \cup { Env(ev, Set("priority"), UnsetText, UnsetText, h, m, l) :
             ev \in EnabledValues, h \in TierValues, m \in TierValues, l \in TierValues }

\* conf while a string is parsed and formatted back
ParseJob(text) ==
  [kind |-> "parse", phase |-> "start", text |-> text, variant |-> "",
   parsed |-> Parsed(FALSE, ""), shown |-> ""]

\* conf while an enumerator is formatted and parsed back
FormatJob(variant) ==
  [kind |-> "format", phase |-> "start", text |-> "", variant |-> variant,
   parsed |-> Parsed(FALSE, ""), shown |-> ""]

\* conf while an EventConfig is validated
ValidateJob(cfg) ==
  [kind |-> "validate", phase |-> "start", events |-> cfg, result |-> ""]

\* conf while Config::from_env runs
LoadJob(env) ==
  [kind |-> "load", phase |-> "start", env |-> env,
   events |-> EventConfig(default_enabled_events_vec, RealTime), result |-> ""]

\* str::to_lowercase of the texts the model sets the wRPC settings to
to_lowercase(text) ==
  CASE text = "WS" -> "ws"
    [] text = "Mainnet" -> "mainnet"
    [] text = "JSON" -> "json"
    [] OTHER -> text

\* struct WrpcConfig (the enabled flag, which validate does not read, left out)
WrpcConfig(protocol, host, port, network, encoding) ==
  [protocol |-> protocol, host |-> host, port |-> port,
   network |-> network, encoding |-> encoding]

\* WrpcConfig::default
WrpcConfig_default == WrpcConfig("ws", "8.210.45.192", 0, "devnet", "borsh")

\* WrpcConfig::get_network_type
get_network_type(cfg) ==
  IF to_lowercase(cfg.network) \in {"mainnet", "testnet", "devnet", "simnet"}
    THEN Parsed(TRUE, to_lowercase(cfg.network))
    ELSE Parsed(FALSE, "Invalid network type")

\* WrpcConfig::get_encoding
get_encoding(cfg) ==
  IF to_lowercase(cfg.encoding) \in {"borsh", "json"}
    THEN Parsed(TRUE, to_lowercase(cfg.encoding))
    ELSE Parsed(FALSE, "Invalid encoding type")

\* WrpcConfig::validate
WrpcConfig_validate(cfg) ==
  IF to_lowercase(cfg.protocol) \notin {"ws", "wss"} THEN "Invalid protocol"
  ELSE IF ~get_network_type(cfg).ok THEN get_network_type(cfg).val
  ELSE IF ~get_encoding(cfg).ok THEN get_encoding(cfg).val
  ELSE IF cfg.host = "" THEN "Host cannot be empty"
  ELSE IF cfg.port > 0 /\ cfg.port < 1024 THEN "Port is outside valid range"
  ELSE "Ok"

\* NetworkType::default_borsh_rpc_port, NetworkType::default_json_rpc_port
default_rpc_port(network, encoding) ==
  (IF encoding = "json" THEN 18010 ELSE 17010)
    + (CASE network = "mainnet" -> 100
         [] network = "testnet" -> 200
         [] network = "simnet" -> 300
         [] network = "devnet" -> 600)

\* WrpcConfig::get_default_port: devnet and borsh stand in for a network or
\* an encoding that does not parse
get_default_port(cfg) ==
  default_rpc_port(IF get_network_type(cfg).ok THEN get_network_type(cfg).val
                   ELSE "devnet",
                   IF get_encoding(cfg).ok THEN get_encoding(cfg).val
                   ELSE "borsh")

\* WrpcConfig::build_url: format!("{}://{}:{}", protocol, host, port)
build_url(cfg) ==
  LET port == IF cfg.port = 0 THEN get_default_port(cfg) ELSE cfg.port
  IN <<cfg.protocol, "://", cfg.host, ":",
       IF port < 1024 THEN get_default_port(cfg) ELSE port>>

\* the wRPC settings validate is given in the model
WrpcProtocols == { "ws", "wss", "WS", "grpc", "invalid" }

WrpcHosts == { "8.210.45.192", "" }

WrpcPorts == { 0, 80, 1023, 1024, 16110 }

WrpcNetworks == { "mainnet", "testnet", "devnet", "simnet", "Mainnet", "invalid" }

WrpcEncodings == { "borsh", "json", "JSON", "invalid" }

WrpcConfigs ==
  { WrpcConfig(pr, h, po, n, e) :
      pr \in WrpcProtocols, h \in WrpcHosts, po \in WrpcPorts,
      n \in WrpcNetworks, e \in WrpcEncodings }

\* conf while a WrpcConfig is validated
WrpcJob(cfg) ==
  [kind |-> "wrpc", phase |-> "start", wrpc |-> cfg, result |-> "",
   url |-> <<>>, variant |-> "none"]

InitConfig ==
  /\ meta = Url("ws://", TRUE, TRUE)
  /\ configured = default_enabled_events
  /\ InitServer
  /\ ctor = NoCtor
  /\ req = NoReq
  /\ conf \in { ParseJob(t) : t \in EventStrings }
              \cup { FormatJob(v) : v \in EventTypeVariants }
              \cup { ValidateJob(cfg) : cfg \in EventConfigs }
              \cup { LoadJob(env) : env \in Envs }
              \cup { WrpcJob(cfg) : cfg \in WrpcConfigs }

\* EventType::from_str(text)
ParseText ==
  /\ conf.kind = "parse" /\ conf.phase = "start"
  /\ conf' = [conf EXCEPT !.parsed = from_str(conf.text), !.phase = "parsed"]
  /\ UNCHANGED <<poolVars, nodeVars, endpointVars, socketVars, ctor, req>>

\* event_type.to_string() of the parsed enumerator
FormatParsed ==
  /\ conf.kind = "parse" /\ conf.phase = "parsed" /\ conf.parsed.ok
  /\ conf' = [conf EXCEPT !.shown = to_string(conf.parsed.val), !.phase = "formatted"]
  /\ UNCHANGED <<poolVars, nodeVars, endpointVars, socketVars, ctor, req>>

\* variant.to_string()
FormatVariant ==
  /\ conf.kind = "format" /\ conf.phase = "start"
  /\ conf' = [conf EXCEPT !.shown = to_string(conf.variant), !.phase = "formatted"]
  /\ UNCHANGED <<poolVars, nodeVars, endpointVars, socketVars, ctor, req>>

\* EventType::from_str of the formatted enumerator
ParseShown ==
  /\ conf.kind = "format" /\ conf.phase = "formatted"
  /\ conf' = [conf EXCEPT !.parsed = from_str(conf.shown), !.phase = "parsed"]
  /\ UNCHANGED <<poolVars, nodeVars, endpointVars, socketVars, ctor, req>>

\* events.validate()
Validate ==
  /\ conf.kind = "validate" /\ conf.phase = "start"
  /\ conf' = [conf EXCEPT !.result = validate(conf.events), !.phase = "validated"]
  /\ UNCHANGED <<poolVars, nodeVars, endpointVars, socketVars, ctor, req>>

\* Config::from_env()
LoadFromEnv ==
  /\ conf.kind = "load" /\ conf.phase = "start"
  /\ conf' = [conf EXCEPT !.result = from_env(conf.env).result,
                          !.events = from_env(conf.env).events,
                          !.phase = "loaded"]
  /\ UNCHANGED <<poolVars, nodeVars, endpointVars, socketVars, ctor, req>>

\* wrpc.validate()
ValidateWrpc ==
  /\ conf.kind = "wrpc" /\ conf.phase = "start"
  /\ conf' = [conf EXCEPT !.result = WrpcConfig_validate(conf.wrpc), !.phase = "validated"]
  /\ UNCHANGED <<poolVars, nodeVars, endpointVars, socketVars, ctor, req>>

\* routes::router: the pool is opened on config.wrpc.build_url()
BuildUrl ==
  /\ conf.kind = "wrpc" /\ conf.phase = "validated"
  /\ conf' = [conf EXCEPT !.url = build_url(conf.wrpc),
                          !.variant = VariantOf(UrlOf(build_url(conf.wrpc))),
                          !.phase = "built"]
  /\ UNCHANGED <<poolVars, nodeVars, endpointVars, socketVars, ctor, req>>

NextConfig ==
  \/ BuildUrl
  \/ ParseText
  \/ FormatParsed
  \/ FormatVariant
  \/ ParseShown
  \/ Validate
  \/ LoadFromEnv
  \/ ValidateWrpc

SpecConfig == InitConfig /\ [][NextConfig]_vars

(***************************************************************************)
(* routes/websocket/event.rs: the outbound message built from a            *)
(* notification.  routes/grpc/mod.rs: the request/response call endpoint.  *)
(***************************************************************************)
\* the payloads notifications carry in the model
NotePayloads == { "payload-a", "payload-b" }

\* tondi_rpc_core::Notification: a variant and its payload
Notification(variant, payload) == [variant |-> variant, payload |-> payload]

Notifications ==
  { Notification(v, d) : v \in EventTypeVariants, d \in NotePayloads }

\* <Event as From<Notification>>::from
Event_from(n) ==
  CASE n.variant = "BlockAdded" -> [variant |-> "BlockAdded", payload |-> n.payload]
    [] n.variant = "VirtualChainChanged" ->
         [variant |-> "VirtualChainChanged", payload |-> n.payload]
    [] n.variant = "FinalityConflict" ->
         [variant |-> "FinalityConflict", payload |-> n.payload]
    [] n.variant = "FinalityConflictResolved" ->
         [variant |-> "FinalityConflictResolved", payload |-> n.payload]
    [] n.variant = "UtxosChanged" -> [variant |-> "UtxosChanged", payload |-> n.payload]
    [] n.variant = "SinkBlueScoreChanged" ->
         [variant |-> "SinkBlueScoreChanged", payload |-> n.payload]
    [] n.variant = "VirtualDaaScoreChanged" ->
         [variant |-> "VirtualDaaScoreChanged", payload |-> n.payload]
    [] n.variant = "PruningPointUtxoSetOverride" ->
         [variant |-> "PruningPointUtxoSetOverride", payload |-> n.payload]
    [] n.variant = "NewBlockTemplate" ->
         [variant |-> "NewBlockTemplate", payload |-> n.payload]

\* #[serde(tag = "event", content = "content")] without rename_all: the tag
\* is the name of the enumerator as written in the enum
serde_tag(event) == event.variant

\* <Message as TryFrom<Event>>::try_from: the JSON text of the event
Message_try_from(event) == [event |-> serde_tag(event), content |-> event.payload]

\* no Event built yet, no message built yet
NoEvent == [variant |-> "", payload |-> ""]

NoMessage == [event |-> "", content |-> ""]

\* req while a notification is turned into an outbound message
EventJob(n) ==
  [kind |-> "event", phase |-> "start", note |-> n, event |-> NoEvent,
   message |-> NoMessage]

\* results of pool.get()
GetOutcomes == { "Ok", "TryLockError", "PoolError" }

\* the operations of the call endpoint in the model
CallOps == { "Ping", "GetInfo", "GetBlock", "GetBlockCount" }

\* response.payload: None, Some(payload) that converts to the operation's
\* response, Some(payload) whose conversion fails, Some(payload) of a reserved
\* interface
PayloadKinds == { "None", "Typed", "Malformed", "Reserved" }

\* what client.call(op, params).await yields: Err(e), or Ok(response)
NodeResponse(ok, kind, op) == [ok |-> ok, payload |-> [kind |-> kind, op |-> op]]

NodeResponses(op) ==
  { NodeResponse(FALSE, "None", op) } \cup { NodeResponse(TRUE, k, op) : k \in PayloadKinds }

\* what the endpoint returns: Ok(Inner), Err(Error), or no return at all
Reply(outcome, status, data, error, message) ==
  [outcome |-> outcome, status |-> status, data |-> data, error |-> error,
   message |-> message]

NoReply == Reply("", "", "null", "none", "")

\* Inner::new
Inner_new(data) == Reply("Ok", "Ok", data, "none", "")

\* Err(Error::..)
Failed(error, message) == Reply("Err", "", "null", error, message)

\* unreachable!(..)
Panicked == Reply("panic", "", "null", "none", "Reserved Interface")

\* GrpcReturn::try_from(payload)
GrpcReturn_try_from(payload) ==
  CASE payload.kind = "Typed" -> Parsed(TRUE, payload.op)
    [] payload.kind = "Malformed" -> Parsed(FALSE, "RPC Failed")

\* an endpoint that answers a response without payload with success and null data
reply_null_on_none(payload) ==
  IF payload.kind = "None" THEN Reply("Ok", "Ok", "null", "none", "")
  ELSE IF payload.kind = "Reserved" THEN Panicked
  ELSE IF ~GrpcReturn_try_from(payload).ok
    THEN Failed("Generic", GrpcReturn_try_from(payload).val)
  ELSE Inner_new(GrpcReturn_try_from(payload).val)

\* post, from `let Some(payload) = response.payload else ..` on
reply(payload) ==
  IF payload.kind = "None" THEN Failed("Generic", "Grpc Playload Return None")
  ELSE IF payload.kind = "Reserved" THEN Panicked
  ELSE IF ~GrpcReturn_try_from(payload).ok
    THEN Failed("Generic", GrpcReturn_try_from(payload).val)
  ELSE Inner_new(GrpcReturn_try_from(payload).val)

\* req while the call endpoint handles a request
CallJob(op, get, node) ==
  [kind |-> "call", phase |-> "start", op |-> op, get |-> get, node |-> node,
   result |-> NoReply]

InitRoutes ==
  /\ meta = Url("grpc://", TRUE, TRUE)
  /\ configured = default_enabled_events
  /\ InitServer
  /\ ctor = NoCtor
  /\ conf = NoConf
  /\ req \in { EventJob(n) : n \in Notifications }
             \cup { CallJob(op, g, NodeResponse(FALSE, "None", op)) :
                      op \in CallOps, g \in GetOutcomes \ {"Ok"} }
             \cup UNION { { CallJob(op, "Ok", r) : r \in NodeResponses(op) } :
                            op \in CallOps }

\* Event::from(notification)
EventFrom ==
  /\ req.kind = "event" /\ req.phase = "start"
  /\ req' = [req EXCEPT !.event = Event_from(req.note), !.phase = "event"]
  /\ UNCHANGED <<poolVars, nodeVars, endpointVars, socketVars, ctor, conf>>

\* Message::try_from(event)
EventMessage ==
  /\ req.kind = "event" /\ req.phase = "event"
  /\ req' = [req EXCEPT !.message = Message_try_from(req.event), !.phase = "message"]
  /\ UNCHANGED <<poolVars, nodeVars, endpointVars, socketVars, ctor, conf>>

\* let client = client_pool.get().await?;
PostGet ==
  /\ req.kind = "call" /\ req.phase = "start"
  /\ req' = IF req.get = "Ok"
              THEN [req EXCEPT !.phase = "client"]
              ELSE [req EXCEPT !.phase = "returned",
                               !.result = Failed("ClientPoolError", req.get)]
  /\ UNCHANGED <<poolVars, nodeVars, endpointVars, socketVars, ctor, conf>>

\* let response = client.call(op, params).await?;
PostCall ==
  /\ req.kind = "call" /\ req.phase = "client"
  /\ req' = IF req.node.ok
              THEN [req EXCEPT !.phase = "response"]
              ELSE [req EXCEPT !.phase = "returned",
                               !.result = Failed("Generic", "call failed")]
  /\ UNCHANGED <<poolVars, nodeVars, endpointVars, socketVars, ctor, conf>>

\* let Some(payload) = response.payload else { return err!(..) };
\* Ok(GrpcReturn::try_from(payload)?.into())
PostReturn ==
  /\ req.kind = "call" /\ req.phase = "response"
  /\ req' = [req EXCEPT !.phase = "returned", !.result = reply(req.node.payload)]
  /\ UNCHANGED <<poolVars, nodeVars, endpointVars, socketVars, ctor, conf>>

NextRoutes ==
  \/ EventFrom
  \/ EventMessage
  \/ PostGet
  \/ PostCall
  \/ PostReturn

SpecRoutes == InitRoutes /\ [][NextRoutes]_vars

(***************************************************************************)
(* The wRPC dispatcher.  WrpcEventHandler::start_websocket_listening       *)
(* spawns one task per wRPC client: the task owns a clone of the client    *)
(* and a clone of the handler's Listeners, and loops for ever over         *)
(* reconnect / receive_notification / handle_notification / sleep.  The    *)
(* JoinHandle is dropped at once, and nothing aborts the task.             *)
(* req.cur is the NodeClient stored in the Pool, req.tasks the clients     *)
(* whose task runs, req.up the clients whose socket is connected,          *)
(* req.wire[g] the frames in flight to client g, req.box[g][e] the channel *)
(* of the Listener of e held by the task of g, req.none[g] the frames the  *)
(* task of g handled without delivering them.                              *)
(***************************************************************************)
MaxClients == 2
MaxWire == 3

Clients == 1..MaxClients

\* the `type` field of a frame: two identifiers, a text that is none, and
\* "none" for a frame without a readable `type` (absent, or a Borsh payload)
WireTypes == { "block-added", "utxos-changed", "Block-Added", "none" }

Frame(type, n) == [type |-> type, n |-> n]

\* the match of handle_notification on the text of `type`
event_enum(text) == IF text \in EventType THEN text ELSE "unknown"

\* a dispatcher matching the identifier whatever its case
handle_notification_any_case(frame, listeners) ==
  LET low == IF frame.type = "Block-Added" THEN "block-added" ELSE frame.type
  IN IF low \in listeners THEN low ELSE "nobody"

\* handle_notification: the Listener the frame is sent to, or "nobody"
handle_notification(frame, listeners) ==
  IF frame.type = "none" THEN "nobody"
  ELSE IF event_enum(frame.type) = "unknown" THEN "nobody"
  ELSE IF event_enum(frame.type) \in listeners THEN event_enum(frame.type)
  ELSE "nobody"

ListenerSets == { {"block-added"}, {"block-added", "utxos-changed"} }

EmptyBox == [e \in PublishedTypes |-> <<>>]

ListenJob(events) ==
  [kind |-> "listen", cur |-> 1, tasks |-> {1}, up |-> {1},
   lis |-> [g \in Clients |-> IF g = 1 THEN events ELSE {}],
   wire |-> [g \in Clients |-> <<>>],
   box |-> [g \in Clients |-> EmptyBox],
   none |-> [g \in Clients |-> <<>>],
   sent |-> 0]

InitListen ==
  /\ meta = Url("ws://", TRUE, TRUE)
  /\ configured = default_enabled_events
  /\ InitServer
  /\ ctor = NoCtor
  /\ conf = NoConf
  /\ req \in { ListenJob(events) : events \in ListenerSets }

ListenFrame == UNCHANGED <<poolVars, nodeVars, endpointVars, socketVars, ctor, conf>>

\* the node sends a notification to a connected client
NodeSend(g, type) ==
  /\ ListenFrame
  /\ g \in req.up
  /\ req.sent < MaxWire
  /\ req' = [req EXCEPT !.sent = @ + 1,
                        !.wire[g] = Append(@, Frame(type, req.sent + 1))]

\* the socket of a client goes down: the frames in flight are lost
SocketDown(g) ==
  /\ ListenFrame
  /\ g \in req.up
  /\ req' = [req EXCEPT !.up = @ \ {g}, !.wire[g] = <<>>]

\* the loop finds the client disconnected and client.connect(..) succeeds
TaskReconnect(g) ==
  /\ ListenFrame
  /\ g \in req.tasks
  /\ g \notin req.up
  /\ req' = [req EXCEPT !.up = @ \cup {g}]

\* a loop that takes any frame in flight
TaskReceiveAny(g) ==
  /\ ListenFrame
  /\ g \in req.tasks
  /\ g \in req.up
  /\ \E i \in 1..Len(req.wire[g]) :
       LET frame == req.wire[g][i]
           to == handle_notification(frame, req.lis[g])
           rest == [j \in 1..(Len(req.wire[g]) - 1) |->
                      IF j < i THEN req.wire[g][j] ELSE req.wire[g][j + 1]]
       IN req' = IF to = "nobody"
                   THEN [req EXCEPT !.wire[g] = rest,
                                    !.none[g] = Append(@, frame.n)]
                   ELSE [req EXCEPT !.wire[g] = rest,
                                    !.box[g][to] = Append(@, frame.n)]

\* one turn of the loop: receive_notification, then handle_notification
TaskReceive(g) ==
  /\ ListenFrame
  /\ g \in req.tasks
  /\ g \in req.up
  /\ req.wire[g] # <<>>
  /\ LET frame == Head(req.wire[g])
         to == handle_notification(frame, req.lis[g])
     IN req' = IF to = "nobody"
                 THEN [req EXCEPT !.wire[g] = Tail(@),
                                  !.none[g] = Append(@, frame.n)]
                 ELSE [req EXCEPT !.wire[g] = Tail(@),
                                  !.box[g][to] = Append(@, frame.n)]

\* Pool::get stores the client Metadata::try_from built: connect(url) makes
\* a connected client with no Listeners and spawns its task; the client it
\* replaces is dropped, its task is left alone
ReplaceClient ==
  /\ ListenFrame
  /\ req.cur < MaxClients
  /\ req' = [req EXCEPT !.cur = @ + 1,
                        !.tasks = @ \cup {req.cur + 1},
                        !.up = @ \cup {req.cur + 1}]

NextListen ==
  \/ \E g \in Clients, type \in WireTypes : NodeSend(g, type)
  \/ \E g \in Clients : SocketDown(g)
  \/ \E g \in Clients : TaskReconnect(g)
  \/ \E g \in Clients : TaskReceive(g)
  \/ ReplaceClient

SpecListen == InitListen /\ [][NextListen]_vars

(***************************************************************************)
(* The browser client (wasm2-client, socket.rs).  One WrpcClient: its      *)
(* fields, the two maps the onmessage closure of the open WebSocket was    *)
(* given when connect() made it (clones of event_handlers and of           *)
(* pending_requests), the millisecond clock request ids are read from,     *)
(* and what the last operation or incoming message did.  The methods take  *)
(* &mut self, so one runs at a time; reconnect is two steps, the counter   *)
(* being raised before the connection is attempted.                        *)
(***************************************************************************)
MaxReconnect == 2
MaxHandlers == 1
MaxClock == 2

BrowserTypes == { "block-added", "utxos-changed" }

\* the event_type texts subscribe and unsubscribe are called with
BrowserTexts == BrowserTypes \cup { "Block-Added" }

HandlerIds == 1..MaxHandlers

RequestIds == 1..MaxClock

\* WrpcClient::parse_event_type
parse_event_type(text) == text \in EventType

Last(op, result, invoked) ==
  [op |-> op, result |-> result, id |-> 0, invoked |-> invoked]

\* WrpcClient::new(config), config.reconnect_attempts = max
BrowserJob(max) ==
  [kind |-> "browser", phase |-> "idle", max |-> max,
   connected |-> FALSE, attempt |-> 0, now |-> 1,
   event_handlers |-> [e \in BrowserTypes |-> 0],
   pending_requests |-> [i \in RequestIds |-> 0],
   cb_handlers |-> [e \in BrowserTypes |-> 0],
   cb_pending |-> [i \in RequestIds |-> 0],
   last |-> Last("new", "Ok", 0)]

InitBrowser ==
  /\ meta = Url("ws://", TRUE, TRUE)
  /\ configured = default_enabled_events
  /\ InitServer
  /\ ctor = NoCtor
  /\ conf = NoConf
  /\ req \in { BrowserJob(max) : max \in 1..MaxReconnect }

BrowserFrame == UNCHANGED <<poolVars, nodeVars, endpointVars, socketVars, ctor, conf>>

\* the body of connect() once WebSocket::new has returned ok or not
connect_body(r, ok) ==
  IF ok THEN [r EXCEPT !.connected = TRUE, !.attempt = 0,
                       !.cb_handlers = r.event_handlers,
                       !.cb_pending = r.pending_requests]
  ELSE r

\* WrpcClient::connect
BrowserConnect(ok) ==
  /\ BrowserFrame
  /\ req.phase = "idle"
  /\ req' = IF req.connected
              THEN [req EXCEPT !.last = Last("connect", "Already connected", 0)]
              ELSE [connect_body(req, ok) EXCEPT
                      !.last = Last("connect", IF ok THEN "Ok" ELSE "Failed to create WebSocket", 0)]

\* WrpcClient::disconnect
BrowserDisconnect ==
  /\ BrowserFrame
  /\ req.phase = "idle"
  /\ req' = IF ~req.connected
              THEN [req EXCEPT !.last = Last("disconnect", "Not connected", 0)]
              ELSE [req EXCEPT !.connected = FALSE, !.attempt = 0,
                               !.pending_requests = [i \in RequestIds |-> 0],
                               !.last = Last("disconnect", "Ok", 0)]

\* a reconnect that gives up only once the counter is past the maximum
ReconnectBeginPastMax ==
  /\ BrowserFrame
  /\ req.phase = "idle"
  /\ req' = IF req.attempt > req.max
              THEN [req EXCEPT !.last = Last("reconnect", "MaxReconnectAttempts", 0)]
              ELSE IF req.connected
              THEN [req EXCEPT !.last = Last("reconnect", "Already connected", 0)]
              ELSE [req EXCEPT !.attempt = @ + 1, !.phase = "dialing"]

\* WrpcClient::reconnect up to the sleep before the attempt
ReconnectBegin ==
  /\ BrowserFrame
  /\ req.phase = "idle"
  /\ req' = IF req.attempt >= req.max
              THEN [req EXCEPT !.last = Last("reconnect", "MaxReconnectAttempts", 0)]
              ELSE IF req.connected
              THEN [req EXCEPT !.last = Last("reconnect", "Already connected", 0)]
              ELSE [req EXCEPT !.attempt = @ + 1, !.phase = "dialing"]

\* WrpcClient::reconnect: match self.connect().await
ReconnectDial(ok) ==
  /\ BrowserFrame
  /\ req.phase = "dialing"
  /\ req' = [connect_body(req, ok) EXCEPT
               !.phase = "idle",
               !.last = Last("reconnect", IF ok THEN "Ok" ELSE "Failed to create WebSocket", 0)]

\* WrpcClient::reset_reconnect_attempts
ResetReconnectAttempts ==
  /\ BrowserFrame
  /\ req.phase = "idle"
  /\ req' = [req EXCEPT !.attempt = 0, !.last = Last("reset", "Ok", 0)]

\* WrpcClient::subscribe(event_type, handler)
BrowserSubscribe(text, h) ==
  /\ BrowserFrame
  /\ req.phase = "idle"
  /\ req' = IF ~req.connected
              THEN [req EXCEPT !.last = Last("subscribe", "Not connected", 0)]
              ELSE IF ~parse_event_type(text)
              THEN [req EXCEPT !.last = Last("subscribe", "InvalidEventType", 0)]
              ELSE [req EXCEPT !.event_handlers[text] = h,
                               !.last = Last("subscribe", "Ok", 0)]

\* WrpcClient::unsubscribe(event_type)
BrowserUnsubscribe(text) ==
  /\ BrowserFrame
  /\ req.phase = "idle"
  /\ req' = IF text \in BrowserTypes /\ req.event_handlers[text] # 0
              THEN [req EXCEPT !.event_handlers[text] = 0,
                               !.last = Last("unsubscribe", "Ok", 0)]
              ELSE [req EXCEPT !.last = Last("unsubscribe", "InvalidEventType", 0)]

\* WrpcClient::call(method, request, callback): the id is the clock
BrowserCall(cb) ==
  /\ BrowserFrame
  /\ req.phase = "idle"
  /\ req' = IF ~req.connected
              THEN [req EXCEPT !.last = Last("call", "Not connected", 0)]
              ELSE [req EXCEPT !.pending_requests[req.now] = cb,
                               !.last = Last("call", "Ok", 0)]

\* a millisecond passes
ClockTick ==
  /\ BrowserFrame
  /\ req.now < MaxClock
  /\ req' = [req EXCEPT !.now = @ + 1]

\* the onmessage closure gets a message with `method`
OnEvent(e) ==
  /\ BrowserFrame
  /\ req.connected
  /\ req' = [req EXCEPT !.last = Last("event", e, req.cb_handlers[e])]

\* the onmessage closure gets a message without `method` and with `id`
OnResponse(i) ==
  /\ BrowserFrame
  /\ req.connected
  /\ req' = [req EXCEPT !.last = [Last("response", "id", req.cb_pending[i])
                                  EXCEPT !.id = i]]

NextBrowser ==
  \/ \E ok \in BOOLEAN : BrowserConnect(ok)
  \/ BrowserDisconnect
  \/ ReconnectBegin
  \/ \E ok \in BOOLEAN : ReconnectDial(ok)
  \/ ResetReconnectAttempts
  \/ \E text \in BrowserTexts, h \in HandlerIds : BrowserSubscribe(text, h)
  \/ \E text \in BrowserTexts : BrowserUnsubscribe(text)
  \/ \E cb \in HandlerIds : BrowserCall(cb)
  \/ ClockTick
  \/ \E e \in BrowserTypes : OnEvent(e)
  \/ \E i \in RequestIds : OnResponse(i)

SpecBrowser == InitBrowser /\ [][NextBrowser]_vars

(***************************************************************************)
(* The rate limiter (middleware/security.rs).  is_allowed runs under the   *)
(* write lock of the map from its first line to its last, so concurrent    *)
(* calls take effect one after the other, each reading the clock once it   *)
(* holds the lock.  req.requests[k] is the Vec of key k (req.known the     *)
(* keys of the map), req.admitted[k] every instant at which a request of   *)
(* key k was let through.                                                  *)
(***************************************************************************)
MaxRequests == 2
MaxTime == 3
WindowTicks == 2

LimiterKeys == { "global", "peer" }

\* RateLimiter::new(max_requests, window)
LimiterJob(max) ==
  [kind |-> "limit", max_requests |-> max, window |-> WindowTicks, now |-> 0,
   known |-> {},
   requests |-> [k \in LimiterKeys |-> <<>>],
   admitted |-> [k \in LimiterKeys |-> <<>>],
   last |-> [key |-> "none", allowed |-> FALSE]]

InitLimiter ==
  /\ meta = Url("ws://", TRUE, TRUE)
  /\ configured = default_enabled_events
  /\ InitServer
  /\ ctor = NoCtor
  /\ conf = NoConf
  /\ req \in { LimiterJob(max) : max \in 0..MaxRequests }

LimiterFrame == UNCHANGED <<poolVars, nodeVars, endpointVars, socketVars, ctor, conf>>

\* timestamps.retain(|t| now.duration_since(t) < window)
retain(timestamps, now, window) ==
  LET fresh(t) == now - t < window IN SelectSeq(timestamps, fresh)

\* RateLimiter::is_allowed(key)
IsAllowed(key) ==
  /\ LimiterFrame
  /\ IF key \in req.known
       THEN LET kept == retain(req.requests[key], req.now, req.window)
            IN IF Len(kept) < req.max_requests
                 THEN req' = [req EXCEPT !.requests[key] = Append(kept, req.now),
                                         !.admitted[key] = Append(@, req.now),
                                         !.last = [key |-> key, allowed |-> TRUE]]
                 ELSE req' = [req EXCEPT !.requests[key] = kept,
                                         !.last = [key |-> key, allowed |-> FALSE]]
       ELSE req' = [req EXCEPT !.known = @ \cup {key},
                               !.requests[key] = <<req.now>>,
                               !.admitted[key] = Append(@, req.now),
                               !.last = [key |-> key, allowed |-> TRUE]]

\* Instant::now() moves on
LimiterTick ==
  /\ LimiterFrame
  /\ req.now < MaxTime
  /\ req' = [req EXCEPT !.now = @ + 1]

NextLimiter ==
  \/ \E key \in LimiterKeys : IsAllowed(key)
  \/ LimiterTick

SpecLimiter == InitLimiter /\ [][NextLimiter]_vars

(***************************************************************************)
(* Properties of Pool::get.                                                *)
(***************************************************************************)
Returned == {"Ok", "TryLockError", "PoolError"}

\* get() of caller p returns in this step
Returns(p) == pc[p] \notin Returned /\ pc'[p] \in Returned

\* caller p is between requesting exclusive access and giving it up
InRefresh(p) == pc[p] \in {"write_wait", "try_from"}

\* C1 (as stated): a get() that saw the held T not live makes exactly one
\* try_from call and returns a read handle to a T that is live when get()
\* returns.
C1_AlwaysReturnsLiveHandle ==
  [][\A p \in Callers :
       (Returns(p) /\ seen'[p] # 0) =>
         (calls'[p] = 1 /\ pc'[p] = "Ok" /\ is_live(pool'))]_vars

\* C1 (amended): a get() that saw the held T not live makes exactly one
\* try_from call before it returns; when it returns a handle, the handle is to
\* the T the pool holds, which was live when constructed and is live at the
\* return unless its transport went down after construction.
C1_OneReconstruction ==
  [][\A p \in Callers :
       (Returns(p) /\ seen'[p] # 0) =>
         /\ calls'[p] = 1
         /\ pc'[p] = "Ok" =>
              /\ got'[p] = pool'.id
              /\ is_live(pool') \/ pool'.dropped]_vars

C1_Witness ==
  \E p \in Callers :
    pc[p] = "Ok" /\ seen[p] # 0 /\ calls[p] = 1 /\ is_live(pool) /\ ~pool.dropped

\* C2: while no get() is in the refresh section, a try_read is granted however
\* many read handles are out, and a caller that finds the held T live returns
\* a handle without a try_from call and without touching the pool.
C2_ReadersDoNotInterfere ==
  [][\A p \in Callers :
       /\ (pc[p] = "try_read" /\ pc'[p] # "try_read"
             /\ \A q \in Callers : ~InRefresh(q))
            => pc'[p] = "is_live"
       /\ (pc[p] = "is_live" /\ pc'[p] # "is_live" /\ is_live(pool))
            => (pc'[p] = "Ok" /\ calls'[p] = 0 /\ pool' = pool /\ built' = built)]_vars

C2_Witness ==
  \E p, q \in Callers :
    /\ p # q
    /\ pc[p] = "Ok" /\ pc[q] = "Ok"
    /\ seen[p] = 0 /\ seen[q] = 0
    /\ calls[p] = 0 /\ calls[q] = 0
    /\ built = 1

\* C3: at most one get() is inside the reconstruction section, and while one
\* is, no caller holds a read guard.
C3_OneWriterNoReaders ==
  /\ Cardinality({p \in Callers : pc[p] = "try_from"}) <= 1
  /\ (\E p \in Callers : pc[p] = "try_from") =>
       /\ readers = {}
       /\ \A q \in Callers : pc[q] \notin {"is_live", "Ok"}

C3_Witness ==
  \E p, q \in Callers : pc[p] = "try_from" /\ pc[q] = "write_wait"

\* C4 (as stated): get() returns TryLockError only out of a try_read that
\* failed because another get() holds exclusive access, and PoolError only out
\* of a failed try_from.
C4_BusyOnlyWhileWriterHolds ==
  [][\A p \in Callers :
       /\ (pc[p] # "TryLockError" /\ pc'[p] = "TryLockError") =>
            /\ pc[p] \in {"try_read", "reread"}
            /\ writer \notin {NoCaller, p}
       /\ (pc[p] # "PoolError" /\ pc'[p] = "PoolError") => pc[p] = "try_from"]_vars

\* C4 (amended): get() returns TryLockError only out of a try_read that failed
\* because another get() holds exclusive access or is queued for it, and
\* PoolError only out of a failed try_from.
C4_BusyOnlyOnContention ==
  [][\A p \in Callers :
       /\ (pc[p] # "TryLockError" /\ pc'[p] = "TryLockError") =>
            /\ pc[p] \in {"try_read", "reread"}
            /\ \E q \in Callers \ {p} : InRefresh(q)
       /\ (pc[p] # "PoolError" /\ pc'[p] = "PoolError") => pc[p] = "try_from"]_vars

C4_Witness ==
  \E p, q \in Callers :
    pc[p] = "TryLockError" /\ pc[q] = "write_wait" /\ writer = NoCaller

\* C5: one get() calls try_from at most once, and a get() that returned
\* PoolError made exactly one call and holds no lock.
C5_NoInternalRetry ==
  \A p \in Callers :
    /\ calls[p] <= 1
    /\ pc[p] = "PoolError" => (calls[p] = 1 /\ writer # p /\ p \notin readers)

C5_Witness == \E p \in Callers : pc[p] = "PoolError" /\ calls[p] = 1

\* C6: a handle returned after the held T was seen not live is to an instance
\* constructed after that one.
C6_NeverStaleInstance ==
  \A p \in Callers :
    (pc[p] = "Ok" /\ seen[p] # 0) => (got[p] > seen[p] /\ got[p] = pool.id)

C6_Witness == \E p \in Callers : pc[p] = "Ok" /\ seen[p] # 0 /\ got[p] = pool.id

\* C7: a client the pool reconstructed holds Listeners for the configured
\* event set, the set the initial client was constructed with.
C7_ReconstructedCoversConfigured ==
  pool.id > 1 => pool.listeners = configured

\* C8: for the Wrpc variant is_live() is true only while the transport is
\* connected.
C8_WrpcLivenessTracked ==
  pool.variant = "Wrpc" => (is_live(pool) => pool.connected)

(***************************************************************************)
(* Properties of the receive endpoints and of the socket handler.          *)
(***************************************************************************)
\* C9: of two connections holding the receive endpoint of the same event
\* type, each receives every notification published on that type after it
\* obtained the endpoint: what one has received, the other has received or
\* still finds in the channel, and both receive in the same order.
C9_Broadcast ==
  \A c1, c2 \in Conns :
    (c1 # c2 /\ rx[c1] # "none" /\ rx[c1] = rx[c2]) =>
      \A i \in DOMAIN taken[c1] :
        taken[c1][i] > since[c2] =>
          \/ taken[c1][i] \in Range(taken[c2])
          \/ taken[c1][i] \in Range(chan[rx[c2]])

\* C10: a notification that arrived on the receive endpoint of a subscribed
\* event type while a connection is Streaming is eventually sent on that
\* connection's socket as an event message, unless the connection closes.
C10_NotificationsForwarded ==
  \A c \in Conns : \A n \in 1 .. MaxNotes :
    (conn[c] = "Streaming" /\ \E e \in pool.listeners : n \in Range(chan[e]))
      ~> (\/ conn[c] = "Closed"
          \/ \E i \in DOMAIN out[c] :
               out[c][i].kind = "event" /\ out[c][i].content = n)

\* C11: a step that ends one connection's handler (a Close frame, the end of
\* the inbound stream, or a failed send) leaves the pool and its held client
\* with its Listeners, the node's notification channels, the receive
\* endpoints and every other connection's handler state unchanged.
C11_CloseIsLocal ==
  [][\A c \in Conns :
       (conn[c] # "Closed" /\ conn'[c] = "Closed") =>
         /\ UNCHANGED <<poolVars, nodeVars, endpointVars>>
         /\ \A d \in Conns \ {c} :
              /\ conn'[d] = conn[d]
              /\ inbox'[d] = inbox[d]
              /\ out'[d] = out[d]
              /\ frames'[d] = frames[d]]_vars

C11_Witness ==
  \E c, d \in Conns :
    /\ conn[c] = "Closed" /\ out[c] # <<>>
    /\ conn[d] = "Streaming" /\ out[d] # <<>>

(***************************************************************************)
(* Properties of Client::connect_with_events and of ListenerManager.       *)
(***************************************************************************)
\* C12: after connect_with_events succeeds with a non-empty event list, get(e)
\* succeeds for exactly the event types of the list, whichever the variant.
C12_ListenersAreTheRequested ==
  (ctor.phase = "done" /\ ctor.events # <<>>) =>
    \A e \in EventType :
      (ListenerManager_get(ctor.client, e).err = "none") <=> (e \in Range(ctor.events))

\* C13: connect_with_events with an empty event list produces a client with a
\* Listener for every event type of the taxonomy, whichever the variant.
C13_EmptyMeansAll ==
  (ctor.phase = "done" /\ ctor.events = <<>>) =>
    ctor.client.listeners = EventType

\* C14: a construction in which a subscription failed returns no client, and a
\* client that is returned holds a Listener for every event type its
\* constructor subscribes to, the set the pool's try_from counts on.
C14_AllOrNothing ==
  /\ ctor.phase = "failed" => ctor.client = NoClient
  /\ ctor.client # NoClient =>
       /\ ctor.phase = "done"
       /\ ctor.client.listeners = Range(Requested(ctor))
       /\ ctor.client =
            connect_with_events(1, UrlOf(ctor.given), Range(ctor.events))

C14_Witness ==
  /\ ctor.phase = "failed"
  /\ DOMAIN ctor.listeners # {}
  /\ ctor.node # {}
  /\ ctor.client = NoClient

\* the Listeners a constructed client holds for an event type
Held(c, e) ==
  (IF e \in DOMAIN c.listeners THEN 1 ELSE 0)
    + (IF e \in DOMAIN c.hlisteners THEN 1 ELSE 0)

\* the subscriptions started at the node for an event type
NodeSubscriptions(c, e) == Cardinality({ n \in c.node : n[2] = e })

\* C16: after subscribing from a list of event types, one that may name a type
\* more than once, the client holds exactly one Listener and the node exactly
\* one subscription per distinct event type of the list.
C16_OneListenerPerType ==
  ctor.phase = "done" =>
    \A e \in Range(ctor.events) :
      Held(ctor, e) = 1 /\ NodeSubscriptions(ctor, e) = 1

\* C17: every URL selects a branch; ws:// and wss:// select the Wrpc variant,
\* grpc://, http:// and https:// the Grpc variant, a text with a ':' and no
\* "://" the Wrpc variant, and every other URL fails without a transport
\* connection being attempted.
C17_ProtocolSelection ==
  /\ ctor.phase = "start" =>
       ENABLED (CtorUnsupported \/ CtorRedirect \/ CtorTransport)
  /\ ctor.phase # "start" =>
       LET t == ctor.given IN
         IF starts_with(t, <<"ws", "://">>) \/ starts_with(t, <<"wss", "://">>)
           THEN ctor.variant = "Wrpc" /\ ctor.dialed = 1
         ELSE IF \/ starts_with(t, <<"grpc", "://">>)
                 \/ starts_with(t, <<"http", "://">>)
                 \/ starts_with(t, <<"https", "://">>)
           THEN ctor.variant = "Grpc" /\ ctor.dialed = 1
         ELSE IF contains(t, {":"}) /\ ~contains(t, {"://"})
           THEN ctor.variant = "Wrpc" /\ ctor.dialed = 1
         ELSE /\ ctor.phase = "failed"
              /\ ctor.variant = "none"
              /\ ctor.dialed = 0
              /\ ctor.client = NoClient

C17_Witness ==
  /\ ctor.phase = "failed"
  /\ ctor.dialed = 0
  /\ starts_with(ctor.given, <<"ftp", "://">>)

(***************************************************************************)
(* Properties of ListenerManager::get.                                     *)
(***************************************************************************)
\* C15: a lookup of an event type the held client has no Listener for returns
\* the NotFound error, whose status is 404, and hands out no receive endpoint;
\* an endpoint that is handed out is that of a subscribed type.
C15_UnknownIsNotFound ==
  \A c \in Conns :
    /\ (asked[c] # "none" /\ asked[c] \notin pool.listeners) =>
         /\ rx[c] = "none"
         /\ refused[c] = "NotFound"
         /\ status_code(refused[c]) = 404
    /\ rx[c] # "none" => (rx[c] \in pool.listeners /\ refused[c] = "none")

C15_Witness ==
  \E c, d \in Conns :
    /\ asked[c] = "finality-conflict" /\ refused[c] = "NotFound" /\ rx[c] = "none"
    /\ asked[d] = "block-added" /\ rx[d] = "block-added"

(***************************************************************************)
(* Properties of the event configuration.                                  *)
(***************************************************************************)
\* C18: parsing succeeds for exactly the nine identifiers and formatting the
\* result gives the string back; every other string, the empty one and case
\* variants included, gives an error and no enumerator; formatting an
\* enumerator gives one of the nine identifiers and parsing it gives the
\* enumerator back.
C18_ParseFormatInverse ==
  /\ (conf.kind = "parse" /\ conf.phase # "start") =>
       /\ conf.parsed.ok <=> conf.text \in EventType
       /\ conf.parsed.ok <=> conf.parsed.val \in EventTypeVariants
  /\ (conf.kind = "parse" /\ conf.phase = "formatted") => conf.shown = conf.text
  /\ (conf.kind = "format" /\ conf.phase # "start") => conf.shown \in EventType
  /\ (conf.kind = "format" /\ conf.phase = "parsed") =>
       (conf.parsed.ok /\ conf.parsed.val = conf.variant)

C18_Witness ==
  /\ conf.kind = "parse" /\ conf.phase = "formatted"
  /\ conf.text = "pruning-point-utxo-set-override"
  /\ conf.shown = conf.text

\* C19: validate returns an error exactly for the configurations in which an
\* enabled event string is not one of the nine identifiers, or the strategy
\* is Batch with batch_size 0 or batch_timeout_ms 0, or a string of a Priority
\* tier is not one of the nine identifiers.
C19_ValidateExact ==
  (conf.kind = "validate" /\ conf.phase = "validated") =>
    LET st == conf.events.event_strategy IN
      (conf.result # "Ok") <=>
        \/ \E k \in DOMAIN conf.events.enabled_events :
             conf.events.enabled_events[k] \notin EventType
        \/ st.tag = "Batch" /\ (st.batch_size = 0 \/ st.batch_timeout_ms = 0)
        \/ /\ st.tag = "Priority"
           /\ \E str \in Range(st.high_priority) \cup Range(st.medium_priority)
                           \cup Range(st.low_priority) : str \notin EventType

C19_Witness ==
  /\ conf.kind = "validate" /\ conf.phase = "validated"
  /\ conf.events.event_strategy.tag = "Batch"
  /\ conf.events.event_strategy.batch_size > 0
  /\ conf.events.event_strategy.batch_timeout_ms = 0
  /\ conf.events.enabled_events = <<"block-added", "utxos-changed">>
  /\ conf.result # "Ok"

\* an environment value that names a positive integer
IsPositiveText(text) == parse_usize(text).ok /\ parse_usize(text).val > 0

\* the event part of an environment is invalid: an event identifier that is
\* not one of the nine, a strategy selector that is none of realtime, batch
\* and priority, or a strategy parameter that is not a positive integer or
\* names an unknown event
InvalidEventEnv(env) ==
  \/ /\ env.ENABLED_EVENTS.set
     /\ \E str \in Range(split_trim(env.ENABLED_EVENTS.val)) : str \notin EventType
  \/ /\ env.EVENT_STRATEGY.set
     /\ env.EVENT_STRATEGY.val \notin {"realtime", "batch", "priority"}
  \/ /\ env.EVENT_STRATEGY.set /\ env.EVENT_STRATEGY.val = "batch"
     /\ \/ env.BATCH_SIZE.set /\ ~IsPositiveText(env.BATCH_SIZE.val)
        \/ env.BATCH_TIMEOUT_MS.set /\ ~IsPositiveText(env.BATCH_TIMEOUT_MS.val)
  \/ /\ env.EVENT_STRATEGY.set /\ env.EVENT_STRATEGY.val = "priority"
     /\ \E var \in { env.HIGH_PRIORITY_EVENTS, env.MEDIUM_PRIORITY_EVENTS,
                     env.LOW_PRIORITY_EVENTS } :
          var.set /\ \E str \in Range(split_trim(var.val)) : str \notin EventType

\* C20: whenever a configured event identifier, strategy selector or strategy
\* parameter is invalid, Config::from_env returns an error.
C20_InvalidIsFatal ==
  (conf.kind = "load" /\ conf.phase = "loaded" /\ InvalidEventEnv(conf.env)) =>
    conf.result # "Ok"

\* C21: an EventConfig that passes validation, alone or inside
\* Config::from_env, has a non-empty set of enabled event types.
C21_EnabledNonEmpty ==
  (conf.kind \in {"validate", "load"} /\ conf.phase \in {"validated", "loaded"}
     /\ conf.result = "Ok") =>
    parse_event_types(conf.events).val # {}

\* C28: a client holds at most one Listener per event type, the ListenerManager
\* map and the event handler's map of the Wrpc variant counted together, while
\* it is constructed and once it is returned.
C28_OneListenerAcrossStructures ==
  ctor.phase # "none" => \A e \in EventType : Held(ctor, e) <= 1

\* C29: with the Wrpc client, every notification of a subscribed event type
\* the event handler received is in the channel ListenerManager::get hands
\* out for that type, or was received from it by a connection.
C29_HandlerFeedsEndpoint ==
  pool.variant = "Wrpc" =>
    \A n \in DOMAIN notes :
      notes[n] \in pool.listeners =>
        \/ n \in Range(chan[notes[n]])
        \/ \E c \in Conns : n \in Range(taken[c])

(***************************************************************************)
(* Properties of one browser session.                                      *)
(***************************************************************************)
\* the handler of connection c reads the frame at the head of its inbox
ReadsFrame(c) ==
  conn[c] = "Streaming" /\ inbox[c] # <<>> /\ Len(inbox'[c]) < Len(inbox[c])

\* the frame read is answered with exactly one message of the given type, the
\* connection staying open with the later frames still to be read, or the
\* send fails and the connection closes
Answered(c, name) ==
  \/ /\ Len(out'[c]) = Len(out[c]) + 1
     /\ \A i \in DOMAIN out[c] : out'[c][i] = out[c][i]
     /\ out'[c][Len(out'[c])].kind = "type"
     /\ out'[c][Len(out'[c])].name = name
     /\ conn'[c] = "Streaming"
     /\ inbox'[c] = Tail(inbox[c])
  \/ /\ out'[c] = out[c]
     /\ conn'[c] = "Closed"

\* C22: a text frame with a string type is answered with exactly one message:
\* ping with a pong carrying a timestamp, subscribe and unsubscribe with an
\* acknowledgement, an unrecognized type with an error; when the reply is sent
\* the connection stays open and the handler can read the next frame.
C22_OneReplyPerTypedFrame ==
  /\ [][\A c \in Conns :
          ReadsFrame(c) =>
            LET f == Head(inbox[c]) IN
              /\ f = "ping" =>
                   /\ Answered(c, "pong")
                   /\ conn'[c] = "Streaming" => out'[c][Len(out'[c])].content = Timestamp
              /\ f = "subscribe" => Answered(c, "subscribed")
              /\ f = "unsubscribe" => Answered(c, "unsubscribed")
              /\ f = "unknown" => Answered(c, "error")]_vars
  /\ [](\A c \in Conns :
          (conn[c] = "Streaming" /\ inbox[c] # <<>>) => ENABLED HandleFrame(c))

C22_Witness ==
  /\ conn[FirstConn] = "Streaming"
  /\ Len(out[FirstConn]) = 3
  /\ out[FirstConn][2] = Msg("type", "pong", Timestamp)
  /\ out[FirstConn][3].name = "error"
  /\ inbox[FirstConn] = <<>>

\* the states a connection's handler moves between
HandlerMoves ==
  { <<"none", "Upgrading">>, <<"Upgrading", "Streaming">>,
    <<"Upgrading", "Closed">>, <<"Streaming", "Closed">> }

\* C23: a connection's handler only moves Upgrading -> Streaming -> Closed; a
\* welcome message or a reply that cannot be sent, a Close frame and the end
\* of the inbound stream each move it to Closed; Closed is never left, and a
\* Closed handler sends nothing and has no step left.
C23_HandlerLifecycle ==
  /\ [][\A c \in Conns :
          /\ conn'[c] # conn[c] => <<conn[c], conn'[c]>> \in HandlerMoves
          /\ conn[c] = "Closed" => (conn'[c] = "Closed" /\ out'[c] = out[c])
          /\ (conn[c] = "Upgrading" /\ conn'[c] # "Upgrading" /\ out'[c] = out[c]) =>
               conn'[c] = "Closed"
          /\ ReadsFrame(c) =>
               /\ Head(inbox[c]) \in {"Close", "None"} => conn'[c] = "Closed"
               /\ (Head(inbox[c]) \in TextTypes \cup {"no_type"} /\ out'[c] = out[c]) =>
                    conn'[c] = "Closed"]_vars
  /\ [](\A c \in Conns :
          conn[c] = "Closed" => (~ENABLED Welcome(c) /\ ~ENABLED HandleFrame(c)))

C23_Witness ==
  /\ conn[FirstConn] = "Closed"
  /\ Len(out[FirstConn]) = 2
  /\ frames[FirstConn] = 2

\* C24: when recv yields an error, the handler of that connection ends: the
\* step that reads the error closes the connection.
C24_RecvErrorEndsHandler ==
  [][\A c \in Conns :
       (ReadsFrame(c) /\ Head(inbox[c]) = "RecvError") => conn'[c] = "Closed"]_vars

(***************************************************************************)
(* Properties of queued reconstructions.                                   *)
(***************************************************************************)
\* C30: every get() that saw the held T not live calls T::try_from once before
\* it goes on, whatever the T held when it obtains exclusive access: a caller
\* holding the write lock always can call try_from, and the callers do so one
\* at a time.
C30_ReconnectsNotDeduplicated ==
  /\ \A p \in Callers :
       (seen[p] # 0 /\ pc[p] \in {"reread"} \cup Returned) => calls[p] = 1
  /\ \A p \in Callers :
       pc[p] = "try_from" => (writer = p /\ ENABLED TryFromErr(p))
  /\ Cardinality({ p \in Callers : pc[p] = "try_from" }) <= 1

C30_Witness ==
  \E p, q \in Callers :
    /\ p # q
    /\ seen[p] = seen[q] /\ seen[p] # 0
    /\ calls[p] = 1 /\ pc[p] = "reread"
    /\ calls[q] = 0 /\ pc[q] = "try_from" /\ writer = q
    /\ pool.id # seen[q] /\ is_live(pool)

(***************************************************************************)
(* Properties of the wRPC settings.                                        *)
(***************************************************************************)
\* C27: WrpcConfig::validate returns Ok exactly when the protocol is ws or
\* wss, the network is one of mainnet, testnet, devnet and simnet, the
\* encoding is borsh or json, the host is not empty and the port is 0 or at
\* least 1024.
C27_WrpcValidateExact ==
  (conf.kind = "wrpc" /\ conf.phase = "validated") =>
    ((conf.result = "Ok") <=>
       /\ conf.wrpc.protocol \in {"ws", "wss"}
       /\ conf.wrpc.network \in {"mainnet", "testnet", "devnet", "simnet"}
       /\ conf.wrpc.encoding \in {"borsh", "json"}
       /\ conf.wrpc.host # ""
       /\ (conf.wrpc.port = 0 \/ conf.wrpc.port >= 1024))

\* C37: for a WrpcConfig that validate accepts, build_url gives
\* <protocol>://<host>:<port> with the configured port, or the default port
\* of the network and encoding when the port is 0, and connect_with_events
\* on that URL selects the WebSocket-RPC variant.
C37_ValidatedUrlIsWrpc ==
  (conf.kind = "wrpc" /\ conf.phase = "built" /\ conf.result = "Ok") =>
    /\ conf.url = <<conf.wrpc.protocol, "://", conf.wrpc.host, ":",
                    IF conf.wrpc.port = 0 THEN get_default_port(conf.wrpc)
                    ELSE conf.wrpc.port>>
    /\ conf.variant = "Wrpc"

(***************************************************************************)
(* Properties of the routes.                                               *)
(***************************************************************************)
\* C25: the outbound message built from a notification has the event
\* identifier string of the notification's event type in its `event` field
\* and the notification's payload in its `content` field.
C25_EventFieldIsIdentifier ==
  (req.kind = "event" /\ req.phase = "message") =>
    /\ req.message.event = to_string(req.note.variant)
    /\ req.message.content = req.note.payload

\* C26: when the node's response carries no payload the call endpoint returns
\* an error and no data; it returns success only with the typed response of
\* the operation as its data.
C26_NoPayloadIsError ==
  (req.kind = "call" /\ req.phase = "returned") =>
    /\ (req.get = "Ok" /\ req.node.ok /\ req.node.payload.kind = "None") =>
         /\ req.result.outcome = "Err"
         /\ req.result.error # "none"
         /\ status_code(req.result.error) >= 400
         /\ req.result.data = "null"
    /\ req.result.outcome = "Ok" =>
         /\ req.get = "Ok" /\ req.node.ok
         /\ req.node.payload.kind = "Typed"
         /\ req.result.status = "Ok"
         /\ req.result.data = req.op

C26_Witness ==
  /\ req.kind = "call" /\ req.phase = "returned"
  /\ req.get = "Ok" /\ req.node.ok /\ req.node.payload.kind = "None"
  /\ req.result = Failed("Generic", "Grpc Playload Return None")

(***************************************************************************)
(* Properties of the wRPC dispatcher.                                      *)
(***************************************************************************)
Increasing(seq) == \A i, j \in 1..Len(seq) : i < j => seq[i] < seq[j]

\* the task of client g takes one frame off the socket in this step
Receives(g) ==
  /\ req.wire[g] # <<>>
  /\ req'.wire[g] = Tail(req.wire[g])
  /\ req'.up = req.up

\* C32: within one NodeClient and one event type the channel of the type's
\* Listener holds the notifications in the order the node produced them,
\* whatever notifications of other types come between them.
C32_NodeOrderPerType ==
  \A g \in Clients : \A e \in PublishedTypes : Increasing(req.box[g][e])

C32_Witness ==
  \E g \in Clients : \E e, u \in PublishedTypes :
    /\ e # u
    /\ Len(req.box[g][e]) >= 2
    /\ \E i \in 1..Len(req.box[g][u]) :
         /\ req.box[g][e][1] < req.box[g][u][i]
         /\ req.box[g][u][i] < req.box[g][e][2]

C36_DispatchByType ==
  [][\A g \in Clients :
       /\ req.tasks \subseteq req'.tasks
       /\ req'.box[g] # req.box[g] => Receives(g)
       /\ Receives(g) =>
            LET frame == Head(req.wire[g])
            IN IF frame.type \in EventType /\ frame.type \in req.lis[g]
                 THEN /\ req'.box[g] =
                           [req.box[g] EXCEPT ![frame.type] = Append(@, frame.n)]
                      /\ req'.none = req.none
                 ELSE /\ req'.box = req.box
                      /\ req'.none[g] = Append(req.none[g], frame.n)]_vars

C36_Witness ==
  \E g \in Clients : \E e \in PublishedTypes :
    /\ Len(req.none[g]) >= 2
    /\ req.lis[g] = {"block-added"}
    /\ \E i \in 1..Len(req.box[g][e]) : req.none[g][1] < req.box[g][e][i]

(***************************************************************************)
(* Properties of a failed or abandoned reconstruction.                     *)
(***************************************************************************)
\* C34: a get() that returns the unreachable error leaves the held instance
\* and the metadata as they were and no longer holds exclusive access; the
\* write lock is only ever held by a caller inside the refresh block, so a
\* later get() can reach try_from again.
C34_FailedRefreshLeavesPool ==
  /\ [][\A p \in Callers :
          (pc[p] = "try_from" /\ pc'[p] = "PoolError") =>
            /\ pool' = pool
            /\ meta' = meta
            /\ writer' # p
            /\ p \notin readers']_vars
  /\ [](writer # NoCaller => pc[writer] \in {"write_wait", "try_from"})

C34_Witness ==
  \E p, q \in Callers :
    /\ p # q
    /\ pc[p] = "PoolError" /\ calls[p] = 1
    /\ pc[q] = "try_from" /\ writer = q
    /\ ~is_live(pool)

\* C31: a get() that has started a reconstruction leaves it only when
\* T::try_from has returned, its result stored when it is Ok.
C31_RefreshRunsToCompletion ==
  [][\A p \in Callers :
       (pc[p] = "try_from" /\ pc'[p] # "try_from") =>
         /\ calls'[p] = calls[p] + 1
         /\ pc'[p] \in {"reread", "PoolError"}
         /\ pc'[p] = "reread" => (pool'.id = built' /\ built' = built + 1)]_vars

(***************************************************************************)
(* Termination of Pool::get.                                               *)
(***************************************************************************)
\* C35: every get() eventually returns, given that try_from terminates and
\* that every read guard handed out is eventually dropped: no schedule of
\* the callers leaves a get() waiting for ever.
C35_EveryGetReturns ==
  \A p \in FairCallers :
    (pc[p] \notin ({"idle"} \cup Returned)) ~> (pc[p] \in Returned)

C35_Witness ==
  \E p, q \in FairCallers :
    /\ p # q
    /\ pc[p] = "write_wait" /\ writer = p
    /\ pc[q] \in Returned /\ calls[q] = 1

(***************************************************************************)
(* Properties of the browser client.                                       *)
(***************************************************************************)
\* C38: the reconnect counter stays between 0 and config.reconnect_attempts;
\* reconnect gives MaxReconnectAttempts without attempting a connection once
\* the counter is at the maximum; every attempted reconnect raises the
\* counter by exactly one; a successful connect resets it to 0.
C38_ReconnectCounter ==
  /\ [](req.attempt \in 0..req.max)
  /\ [][
       /\ (req.phase = "idle" /\ req.attempt >= req.max
             /\ req'.last = Last("reconnect", "MaxReconnectAttempts", 0)
             /\ req.last # req'.last) =>
              (req'.phase = "idle" /\ req'.connected = req.connected
                 /\ req'.attempt = req.attempt)
       /\ (req.phase = "idle" /\ req'.phase = "dialing") =>
              (req.attempt < req.max /\ req'.attempt = req.attempt + 1)
       /\ (~req.connected /\ req'.connected) => req'.attempt = 0
     ]_vars

C38_Witness ==
  /\ req.last = Last("reconnect", "MaxReconnectAttempts", 0)
  /\ req.attempt = req.max
  /\ req.max = MaxReconnect
  /\ ~req.connected

\* C39: after subscribe(event_type, handler) succeeded on a connected client
\* every incoming message whose `method` is event_type invokes that handler,
\* until unsubscribe(event_type); a response whose `id` is that of a request
\* issued by call() invokes the callback stored for the request.
C39_HandlersFollowSubscriptions ==
  [][
    /\ \A e \in BrowserTypes :
         (req.connected /\ req'.last.op = "event" /\ req'.last.result = e
            /\ req'.last # req.last) =>
           req'.last.invoked = req.event_handlers[e]
    /\ \A i \in RequestIds :
         (req.connected /\ req'.last.op = "response" /\ req'.last.id = i
            /\ req'.last # req.last) =>
           req'.last.invoked = req.pending_requests[i]
  ]_vars

(***************************************************************************)
(* Properties of the rate limiter.                                         *)
(***************************************************************************)
\* the requests of key k let through in the window that ends at instant t
AdmittedIn(k, t) ==
  { i \in DOMAIN req.admitted[k] :
      req.admitted[k][i] <= t /\ t - req.admitted[k][i] < req.window }

\* C40: for every key and every instant t at most max_requests requests
\* were admitted in the window ending at t, whatever max_requests >= 0 is
\* and however the calls interleave; a rejected request is not recorded.
C40_AtMostMaxPerWindow ==
  /\ [](\A k \in LimiterKeys : \A t \in 0..req.now :
          Cardinality(AdmittedIn(k, t)) <= req.max_requests)
  /\ [][\A k \in LimiterKeys :
          (req'.last = [key |-> k, allowed |-> FALSE] /\ req' # req
             /\ req'.now = req.now /\ req.last # req'.last) =>
            /\ req'.admitted = req.admitted
            /\ req'.requests[k] = retain(req.requests[k], req.now, req.window)]_vars

====
